---- MODULE Spec2Model ----
(***************************************************************************)
(* Model of the transcript-to-record extraction engine of the expense      *)
(* recorder (src/src/services/parsingLogic.js) together with the cached    *)
(* reference lists it reads and the clock it consults.                     *)
(*                                                                         *)
(* Strings are TLA+ strings; a character is a string of length one.        *)
(* Positions are 0-based, as in the JavaScript source.  The alphabet is    *)
(* ASCII, for which toLowerCase keeps the length of a string.              *)
(***************************************************************************)
EXTENDS Integers, Sequences, FiniteSets, TLC

VARIABLES
    storedAccountNames,       \* configService storage: the persisted account-name list
    storedExpenseCategories,  \* configService storage: the persisted category list
    cachedAccountNames,       \* parsingLogic.js module variable (Null until loaded)
    cachedExpenseCategories,  \* parsingLogic.js module variable (Null until loaded)
    loadPending,              \* loadConfigLists calls awaiting Promise.all: the values they read
    now,                      \* the clock: index of the current instant in Instants
    transcript,               \* the transcript handed to the extraction engine
    lastCall,                 \* the latest buildExpenseRecordFromTranscript call and its result
    prevCall,                 \* the call before the latest one
    isRecording,              \* audioService.js module variable
    recordingPath,            \* audioService.js module variable (NoPath until a path is made)
    pathsMade,                \* the number of recording paths generated so far
    appState,                 \* App.js: the React state, which the handlers of an event read
    recordingTimeoutRef,      \* App.js: recordingTimeoutRef.current (NoTimer when null)
    timers,                   \* the auto-stop timers that are armed, and whether they are due
    pressed,                  \* the record button is being held
    calls,                    \* the number of top-level invocations (presses, direct calls) so far
    tasks,                    \* the asynchronous executions that are awaiting something
    log                       \* the service requests made so far and the results of direct calls

audioVars == <<isRecording, recordingPath, pathsMade>>

appVars == <<audioVars, appState, recordingTimeoutRef, timers, pressed, calls,
             tasks, log>>

vars == <<storedAccountNames, storedExpenseCategories, cachedAccountNames,
          cachedExpenseCategories, loadPending, now, transcript, lastCall, prevCall, appVars>>

-----------------------------------------------------------------------------
(* JavaScript values that are not strings *)

Null == "null"              \* also stands for undefined
Threw == "TypeError"        \* the result of a call that raised an exception

-----------------------------------------------------------------------------
(* String primitives *)

\* the element of a singleton set.  In The({e : x \in {v}}) the value of v is
\* computed once and named x in e
The(S) == CHOOSE x \in S : TRUE

Min(a, b) == IF a <= b THEN a ELSE b
Max(a, b) == IF a >= b THEN a ELSE b

\* s.charAt(i); "" outside the string
CharAt(s, i) == IF i >= 0 /\ i < Len(s) THEN SubSeq(s, i + 1, i + 1) ELSE ""

\* s.substring(a, b) for 0 <= a
Substring(s, a, b) ==
    IF Min(Max(a, 0), Len(s)) >= Min(Max(b, 0), Len(s)) THEN ""
    ELSE SubSeq(s, Min(Max(a, 0), Len(s)) + 1, Min(Max(b, 0), Len(s)))

\* s.slice(a) / s.substring(a) for 0 <= a
SliceFrom(s, a) == Substring(s, a, Len(s))

UpperLetters == "ABCDEFGHIJKLMNOPQRSTUVWXYZ"
LowerLetters == "abcdefghijklmnopqrstuvwxyz"
DigitChars == "0123456789"

CharsOf(s) == {SubSeq(s, i, i) : i \in 1..Len(s)}

UpperSet == CharsOf(UpperLetters)
LowerSet == CharsOf(LowerLetters)
DigitSet == CharsOf(DigitChars)
WordSet == UpperSet \cup LowerSet \cup DigitSet \cup {"_"}   \* regex \w
SpaceSet == {" ", "\t", "\n"}                                \* regex \s
DigitCommaSet == DigitSet \cup {","}                         \* regex [\d,]
LeadSepSet == SpaceSet \cup {":", ",", "-"}                  \* regex [\s:,-]
TrailSepDotSet == SpaceSet \cup {":", ",", "-", "."}         \* regex [\s:,-.]
AlnumLowerSet == LowerSet \cup DigitSet                      \* regex [a-z0-9]

LowerMap ==
    [c \in UpperSet |->
        The({SubSeq(LowerLetters, i, i) : i \in {k \in 1..26 : SubSeq(UpperLetters, k, k) = c}})]

LowerChar(c) == IF c \in UpperSet THEN LowerMap[c] ELSE c

RECURSIVE LowerRange(_, _, _)
\* the lowercased characters of s at positions a .. b-1, by halving
LowerRange(s, a, b) ==
    IF b <= a THEN ""
    ELSE IF b = a + 1 THEN LowerChar(CharAt(s, a))
    ELSE LowerRange(s, a, (a + b) \div 2) \o LowerRange(s, (a + b) \div 2, b)

\* String.prototype.toLowerCase
ToLowerCase(s) == LowerRange(s, 0, Len(s))

\* the least element of a non-empty set of integers
Least(S) == CHOOSE x \in S : \A y \in S : x <= y

\* String.prototype.indexOf: the first position of n in h, -1 when absent
IndexOf(h, n) ==
    The({ IF found = {} THEN -1 ELSE Least(found)
          : found \in {{i \in 0..(Len(h) - Len(n)) : Substring(h, i, i + Len(n)) = n}} })

\* String.prototype.includes
Includes(h, n) == IndexOf(h, n) # -1

StartsWithAt(s, p, w) == Substring(s, p, p + Len(w)) = w

EndsWith(s, w) == Len(s) >= Len(w) /\ Substring(s, Len(s) - Len(w), Len(s)) = w

RECURSIVE SpanEnd(_, _, _)
\* end of the longest run of characters of set cs that starts at position p
SpanEnd(s, p, cs) ==
    IF p < Len(s) /\ CharAt(s, p) \in cs THEN SpanEnd(s, p + 1, cs) ELSE p

RECURSIVE SpanStart(_, _, _)
\* start of the longest run of characters of set cs that ends at position e
SpanStart(s, e, cs) ==
    IF e > 0 /\ CharAt(s, e - 1) \in cs THEN SpanStart(s, e - 1, cs) ELSE e

\* s.replace(/^[cs]+/, "")
StripLeading(s, cs) == SliceFrom(s, SpanEnd(s, 0, cs))

\* s.replace(/[cs]+$/, "")
StripTrailing(s, cs) == Substring(s, 0, SpanStart(s, Len(s), cs))

\* String.prototype.trim
Trim(s) == StripTrailing(StripLeading(s, SpaceSet), SpaceSet)

\* regex \b at position p of s
WordBoundary(s, p) == (CharAt(s, p - 1) \in WordSet) # (CharAt(s, p) \in WordSet)

RECURSIVE RemoveCommasRange(_, _, _)
\* the characters of s at positions a .. b-1 other than ',', by halving
RemoveCommasRange(s, a, b) ==
    IF b <= a THEN ""
    ELSE IF b = a + 1 THEN (IF CharAt(s, a) = "," THEN "" ELSE CharAt(s, a))
    ELSE RemoveCommasRange(s, a, (a + b) \div 2) \o RemoveCommasRange(s, (a + b) \div 2, b)

\* s.replace(/,/g, '')
RemoveCommas(s) == RemoveCommasRange(s, 0, Len(s))

\* s.padStart(2, '0')
PadStart2(s) == IF Len(s) = 0 THEN "00" ELSE IF Len(s) = 1 THEN "0" \o s ELSE s

DigitValue(c) == CHOOSE k \in 0..9 : SubSeq(DigitChars, k + 1, k + 1) = c

\* NaN, the result of parseInt on a string without digits
NaN == -1

RECURSIVE ParseDigits(_, _, _)
\* the value of the digits of s from position i on, after the value acc
ParseDigits(s, i, acc) ==
    IF i >= Len(s) THEN acc
    ELSE ParseDigits(s, i + 1, acc * 10 + DigitValue(CharAt(s, i)))

\* parseInt / Number of a string of decimal digits (NaN for parseInt of "")
ParseInt(s) == IF s = "" THEN NaN ELSE ParseDigits(s, 0, 0)

\* a >= b of JavaScript, false when a is NaN
NumGE(a, b) == a # NaN /\ a >= b

RECURSIVE NatToString(_)
\* String(n) for a natural number n
NatToString(n) ==
    IF n < 10 THEN SubSeq(DigitChars, n + 1, n + 1)
    ELSE NatToString(n \div 10) \o SubSeq(DigitChars, (n % 10) + 1, (n % 10) + 1)

-----------------------------------------------------------------------------
(* The text after the keyword "charge" *)

\* STEP 2: the offset, in the text after "charge", of the earlier of the
\* keywords "category" and "description", -1 when neither follows
NextKeywordOffset(afterCharge) ==
    The({ IF categoryIdx # -1 /\ descriptionIdx # -1 THEN Min(categoryIdx, descriptionIdx)
          ELSE IF categoryIdx # -1 THEN categoryIdx
          ELSE IF descriptionIdx # -1 THEN descriptionIdx
          ELSE -1
          : categoryIdx \in {IndexOf(afterCharge, "category")},
            descriptionIdx \in {IndexOf(afterCharge, "description")} })

\* the offset right after the keyword "charge", -1 when the transcript has none
ChargeOffset(lower) ==
    The({ IF chargeStartIdx = -1 THEN -1 ELSE chargeStartIdx + Len("charge")
          : chargeStartIdx \in {IndexOf(lower, "charge")} })

\* text.replace(/^[\s:,-]+/i, "").replace(/[\s:,-]+$/i, "").trim()
Cleaned(text) == Trim(StripTrailing(StripLeading(text, LeadSepSet), LeadSepSet))

\* STEPs 2-4 of extractExpenseAmount for a transcript with "charge": the
\* cleaned text between the keyword and the next one; without a next
\* keyword nextKeywordOffset is afterCharge.length
AmountWindow(t, lower, chargeOffset) ==
    The({ Cleaned(Substring(t, chargeOffset,
                            chargeOffset + (IF nextKeywordOffset = -1
                                            THEN Len(SliceFrom(lower, chargeOffset))
                                            ELSE nextKeywordOffset)))
          : nextKeywordOffset \in {NextKeywordOffset(SliceFrom(lower, chargeOffset))} })

\* the lowercased text the amount patterns are searched in
AmountSearchText(t) ==
    The({ IF chargeOffset = -1 THEN lower
          ELSE The({ IF cleanedAmountText # "" THEN ToLowerCase(cleanedAmountText) ELSE lower
                     : cleanedAmountText \in {AmountWindow(t, lower, chargeOffset)} })
          : lower \in {ToLowerCase(t)},
            chargeOffset \in {ChargeOffset(ToLowerCase(t))} })

-----------------------------------------------------------------------------
(* The five amount patterns.  A match is a record: found, and the two     *)
(* capture groups g1 and g2 (Null for a group that did not take part).     *)

NoMatch == [found |-> FALSE, g1 |-> Null, g2 |-> Null]

\* the optional group (?:\s+and\s+(\d+)\s+cents?)? tried at position q:
\* its capture, Null when the group does not match there
AndCentsGroupAt(t, q) ==
    The({ The({ The({ The({
        IF /\ w1 > q
           /\ StartsWithAt(t, w1, "and")
           /\ w2 > w1 + 3
           /\ d > w2
           /\ w3 > d
           /\ StartsWithAt(t, w3, "cent")
        THEN Substring(t, w2, d)
        ELSE Null
        : w3 \in {SpanEnd(t, d, SpaceSet)} })
        : d  \in {SpanEnd(t, w2, DigitSet)} })
        : w2 \in {SpanEnd(t, w1 + 3, SpaceSet)} })
        : w1 \in {SpanEnd(t, q, SpaceSet)} })

\* /\b([\d,]+)\s+dollars?(?:\s+and\s+(\d+)\s+cents?)?/ tried at position p
DollarsMatchAt(t, p) ==
    The({ The({
        IF /\ WordBoundary(t, p)
           /\ e1 > p
           /\ e2 > e1
           /\ StartsWithAt(t, e2, "dollar")
        THEN [found |-> TRUE, g1 |-> Substring(t, p, e1),
              g2 |-> AndCentsGroupAt(t, IF CharAt(t, e2 + Len("dollar")) = "s"
                                        THEN e2 + Len("dollar") + 1
                                        ELSE e2 + Len("dollar"))]
        ELSE NoMatch
        : e2 \in {SpanEnd(t, e1, SpaceSet)} })
        : e1 \in {SpanEnd(t, p, DigitCommaSet)} })

\* /\b(\d+)\s+cents?\b/ tried at position p
CentsOnlyMatchAt(t, p) ==
    The({ The({
        IF /\ WordBoundary(t, p)
           /\ e1 > p
           /\ e2 > e1
           /\ StartsWithAt(t, e2, "cent")
           /\ WordBoundary(t, IF CharAt(t, e2 + Len("cent")) = "s"
                              THEN e2 + Len("cent") + 1
                              ELSE e2 + Len("cent"))
        THEN [found |-> TRUE, g1 |-> Substring(t, p, e1), g2 |-> Null]
        ELSE NoMatch
        : e2 \in {SpanEnd(t, e1, SpaceSet)} })
        : e1 \in {SpanEnd(t, p, DigitSet)} })

\* the optional group (?:\.(\d{1,2}))? at position e, taken greedily with
\* nothing required after it: its capture, Null when it does not match
FractionGroupAt(t, e) ==
    IF CharAt(t, e) = "." /\ CharAt(t, e + 1) \in DigitSet
    THEN IF CharAt(t, e + 2) \in DigitSet THEN Substring(t, e + 1, e + 3)
         ELSE Substring(t, e + 1, e + 2)
    ELSE Null

\* /\$([\d,]+)(?:\.(\d{1,2}))?/ tried at position p
DollarSignWithCommasMatchAt(t, p) ==
    The({ IF CharAt(t, p) = "$" /\ e1 > p + 1
          THEN [found |-> TRUE, g1 |-> Substring(t, p + 1, e1), g2 |-> FractionGroupAt(t, e1)]
          ELSE NoMatch
          : e1 \in {SpanEnd(t, p + 1, DigitCommaSet)} })

\* /\b([\d,]+)(?:\.(\d{1,2}))?\b/ with the run [\d,]+ ending at e: the
\* alternatives the regex engine tries in order (two fraction digits, one
\* fraction digit, no fraction), each needing a word boundary after it
NumberTailAt(t, e) ==
    The({ IF dot /\ CharAt(t, e + 2) \in DigitSet /\ WordBoundary(t, e + 3)
          THEN [found |-> TRUE, g2 |-> Substring(t, e + 1, e + 3)]
          ELSE IF dot /\ WordBoundary(t, e + 2)
          THEN [found |-> TRUE, g2 |-> Substring(t, e + 1, e + 2)]
          ELSE IF WordBoundary(t, e)
          THEN [found |-> TRUE, g2 |-> Null]
          ELSE [found |-> FALSE, g2 |-> Null]
          : dot \in {CharAt(t, e) = "." /\ CharAt(t, e + 1) \in DigitSet} })

\* /\b([\d,]+)(?:\.(\d{1,2}))?\b/ tried at position p: the longest run
\* [\d,]+ from p after which the rest of the pattern matches
NumberWithCommasMatchAt(t, p) ==
    The({ IF WordBoundary(t, p) /\ ends # {}
          THEN The({ [found |-> TRUE, g1 |-> Substring(t, p, e), g2 |-> NumberTailAt(t, e).g2]
                     : e \in {CHOOSE x \in ends : \A y \in ends : y <= x} })
          ELSE NoMatch
          : ends \in {{e \in (p + 1)..SpanEnd(t, p, DigitCommaSet) : NumberTailAt(t, e).found}} })

\* /\$(\d+)(?:\.(\d{1,2}))?/ tried at position p
DollarSignMatchAt(t, p) ==
    The({ IF CharAt(t, p) = "$" /\ e1 > p + 1
          THEN [found |-> TRUE, g1 |-> Substring(t, p + 1, e1), g2 |-> FractionGroupAt(t, e1)]
          ELSE NoMatch
          : e1 \in {SpanEnd(t, p + 1, DigitSet)} })

\* text.match(re) without the g flag is the match at the leftmost position
DollarsPattern(t) ==
    The({ IF ps = {} THEN NoMatch ELSE DollarsMatchAt(t, Least(ps))
          : ps \in {{p \in 0..Len(t) : DollarsMatchAt(t, p).found}} })

CentsOnlyPattern(t) ==
    The({ IF ps = {} THEN NoMatch ELSE CentsOnlyMatchAt(t, Least(ps))
          : ps \in {{p \in 0..Len(t) : CentsOnlyMatchAt(t, p).found}} })

DollarSignWithCommasPattern(t) ==
    The({ IF ps = {} THEN NoMatch ELSE DollarSignWithCommasMatchAt(t, Least(ps))
          : ps \in {{p \in 0..Len(t) : DollarSignWithCommasMatchAt(t, p).found}} })

NumberWithCommasPattern(t) ==
    The({ IF ps = {} THEN NoMatch ELSE NumberWithCommasMatchAt(t, Least(ps))
          : ps \in {{p \in 0..Len(t) : NumberWithCommasMatchAt(t, p).found}} })

DollarSignPattern(t) ==
    The({ IF ps = {} THEN NoMatch ELSE DollarSignMatchAt(t, Least(ps))
          : ps \in {{p \in 0..Len(t) : DollarSignMatchAt(t, p).found}} })

-----------------------------------------------------------------------------
(* Normalisation of a match to the amount string *)

\* the cents of patterns 3, 4 and 5: '00' without a fraction, one digit padded
FractionCents(g2) == IF g2 = Null THEN "00" ELSE IF Len(g2) = 1 THEN g2 \o "0" ELSE g2

DollarsAmount(m) ==
    RemoveCommas(m.g1) \o "." \o (IF m.g2 # Null THEN PadStart2(m.g2) ELSE "00")

\* CentsOnlyAmount without the cut to two digits
CentsOnlyAmountUncut(m) == "0." \o PadStart2(m.g1)

\* pattern 2: "0." and the digits padded to two and cut to two
CentsOnlyAmount(m) == "0." \o Substring(PadStart2(m.g1), 0, 2)

DollarSignWithCommasAmount(m) == RemoveCommas(m.g1) \o "." \o FractionCents(m.g2)

NumberWithCommasAmount(m) == RemoveCommas(m.g1) \o "." \o FractionCents(m.g2)

DollarSignAmount(m) == m.g1 \o "." \o FractionCents(m.g2)

\* the least integer value pattern 4 accepts for a number without a comma
MinBareAmount == 10

\* NumberAccepted with the comparison > in place of >=
NumberAcceptedStrict(m) ==
    Includes(m.g1, ",") \/ NumGE(ParseInt(RemoveCommas(m.g1)), MinBareAmount + 1)

\* the guard of pattern 4: the raw match has a comma or its value is >= 10
NumberAccepted(m) ==
    Includes(m.g1, ",") \/ NumGE(ParseInt(RemoveCommas(m.g1)), MinBareAmount)

\* AmountFromText with the cents-only pattern tried before the dollars pattern
AmountFromTextCentsFirst(text) ==
    The({ IF centsOnlyPattern.found THEN CentsOnlyAmount(centsOnlyPattern)
          ELSE IF dollarsPattern.found THEN DollarsAmount(dollarsPattern)
          ELSE IF dollarSignWithCommasPattern.found
          THEN DollarSignWithCommasAmount(dollarSignWithCommasPattern)
          ELSE IF numberWithCommasPattern.found /\ NumberAccepted(numberWithCommasPattern)
          THEN NumberWithCommasAmount(numberWithCommasPattern)
          ELSE IF dollarSignPattern.found THEN DollarSignAmount(dollarSignPattern)
          ELSE ""
          : dollarsPattern \in {DollarsPattern(text)},
            centsOnlyPattern \in {CentsOnlyPattern(text)},
            dollarSignWithCommasPattern \in {DollarSignWithCommasPattern(text)},
            numberWithCommasPattern \in {NumberWithCommasPattern(text)},
            dollarSignPattern \in {DollarSignPattern(text)} })

\* STEP 5 of extractExpenseAmount: the pattern chain on the searched text
AmountFromText(text) ==
    The({ IF dollarsPattern.found THEN DollarsAmount(dollarsPattern)
          ELSE IF centsOnlyPattern.found THEN CentsOnlyAmount(centsOnlyPattern)
          ELSE IF dollarSignWithCommasPattern.found
          THEN DollarSignWithCommasAmount(dollarSignWithCommasPattern)
          ELSE IF numberWithCommasPattern.found /\ NumberAccepted(numberWithCommasPattern)
          THEN NumberWithCommasAmount(numberWithCommasPattern)
          ELSE IF dollarSignPattern.found THEN DollarSignAmount(dollarSignPattern)
          ELSE ""
          : dollarsPattern \in {DollarsPattern(text)},
            centsOnlyPattern \in {CentsOnlyPattern(text)},
            dollarSignWithCommasPattern \in {DollarSignWithCommasPattern(text)},
            numberWithCommasPattern \in {NumberWithCommasPattern(text)},
            dollarSignPattern \in {DollarSignPattern(text)} })

ExtractExpenseAmount(t) == IF t = "" THEN "" ELSE AmountFromText(AmountSearchText(t))

-----------------------------------------------------------------------------
(* Fuzzy helpers for matching against the reference lists *)

\* a reference list as a JavaScript value: null, or an array of strings
NullList == [null |-> TRUE, items |-> <<>>]
ArrayOf(xs) == [null |-> FALSE, items |-> xs]

RECURSIVE NormalizeRange(_, _, _)
\* toLowerCase().replace(/[^a-z0-9]+/g, " ") on positions a .. b-1 of the
\* lowercased string s: a character of [a-z0-9] is kept, the first
\* character of a run of others becomes one space, the rest of the run nothing
NormalizeRange(s, a, b) ==
    IF b <= a THEN ""
    ELSE IF b = a + 1
    THEN IF CharAt(s, a) \in AlnumLowerSet THEN CharAt(s, a)
         ELSE IF a = 0 \/ CharAt(s, a - 1) \in AlnumLowerSet THEN " "
         ELSE ""
    ELSE NormalizeRange(s, a, (a + b) \div 2) \o NormalizeRange(s, (a + b) \div 2, b)

NormalizeForMatch(text) ==
    The({Trim(NormalizeRange(lower, 0, Len(lower))) : lower \in {ToLowerCase(text)}})

\* split(/\s+/).filter(Boolean), and split(" ").filter(Boolean), of a
\* normalized string: the positions its tokens start at, and the token at one
TokenStarts(norm) ==
    {i \in 0..(Len(norm) - 1) :
        CharAt(norm, i) # " " /\ (i = 0 \/ CharAt(norm, i - 1) = " ")}

TokenAt(norm, i) == Substring(norm, i, SpanEnd(norm, i, AlnumLowerSet))

\* the least length above which a suffix is stemmed
StemIesMinLen == 4
StemSMinLen == 3

StemToken(token) ==
    IF Len(token) > StemIesMinLen /\ EndsWith(token, "ies")
    THEN Substring(token, 0, Len(token) - 3) \o "y"
    ELSE IF Len(token) > StemSMinLen /\ EndsWith(token, "es")
    THEN Substring(token, 0, Len(token) - 2)
    ELSE IF Len(token) > StemSMinLen /\ EndsWith(token, "s")
    THEN Substring(token, 0, Len(token) - 1)
    ELSE token

\* new Set(textTokens(text)): the set of the stemmed tokens of a text
TextTokens(text) ==
    The({ {StemToken(TokenAt(norm, i)) : i \in TokenStarts(norm)}
          : norm \in {NormalizeForMatch(text)} })

\* scores are fractions n/d with d > 0
Frac(n, d) == [n |-> n, d |-> d]
FracGT(a, b) == a.n * b.d > b.n * a.d
FracGE(a, b) == a.n * b.d >= b.n * a.d
FracMax(a, b) == IF FracGT(b, a) THEN b ELSE a

AccountMinScore == Frac(3, 10)      \* 0.3
CategoryMinScore == Frac(1, 4)      \* 0.25

\* the score of one candidate whose normalized form is not empty
CandidateScore(normalizedTranscript, transcriptTokens, candidateNorm) ==
    The({ IF cTokens = {} THEN phrase
          ELSE FracMax(phrase,
                       Frac(Cardinality({i \in cTokens :
                                            TokenAt(candidateNorm, i) \in transcriptTokens}),
                            Cardinality(cTokens)))
          : phrase \in {IF Includes(normalizedTranscript, candidateNorm)
                        THEN Frac(1, 1) ELSE Frac(0, 1)},
            cTokens \in {TokenStarts(candidateNorm)} })

RECURSIVE BestMatchLoop(_, _, _, _, _)
\* the for loop of bestMatchFromList from candidate i on
BestMatchLoop(normalizedTranscript, transcriptTokens, items, i, acc) ==
    IF i > Len(items) THEN acc
    ELSE The({
        IF candidateNorm = ""
        THEN BestMatchLoop(normalizedTranscript, transcriptTokens, items, i + 1, acc)
        ELSE The({
            IF FracGT(score, acc.bestScore)
            THEN BestMatchLoop(normalizedTranscript, transcriptTokens, items, i + 1,
                               [best |-> items[i], bestScore |-> score])
            ELSE BestMatchLoop(normalizedTranscript, transcriptTokens, items, i + 1, acc)
            : score \in {CandidateScore(normalizedTranscript, transcriptTokens, candidateNorm)} })
        : candidateNorm \in {NormalizeForMatch(items[i])} })

\* BestMatchFromList accepting the best candidate only above minScore
BestMatchFromListAbove(text, candidates, minScore) ==
    The({ IF normalizedTranscript = "" THEN ""
          ELSE IF candidates.null THEN Threw
          ELSE The({ IF FracGT(acc.bestScore, minScore) THEN acc.best ELSE ""
                     : acc \in {BestMatchLoop(normalizedTranscript, TextTokens(text),
                                              candidates.items, 1,
                                              [best |-> "", bestScore |-> Frac(0, 1)])} })
          : normalizedTranscript \in {NormalizeForMatch(text)} })

\* bestMatchFromList; iterating over null raises a TypeError
BestMatchFromList(text, candidates, minScore) ==
    The({ IF normalizedTranscript = "" THEN ""
          ELSE IF candidates.null THEN Threw
          ELSE The({ IF FracGE(acc.bestScore, minScore) THEN acc.best ELSE ""
                     : acc \in {BestMatchLoop(normalizedTranscript, TextTokens(text),
                                              candidates.items, 1,
                                              [best |-> "", bestScore |-> Frac(0, 1)])} })
          : normalizedTranscript \in {NormalizeForMatch(text)} })

\* the value of `matched || text`
OrElse(matched, text) == IF matched = "" THEN text ELSE matched

\* GetCachedAccountNames without the `|| []`
GetCachedAccountNamesRaw(cached) == cached

\* getCachedAccountNames: cachedAccountNames || []
GetCachedAccountNames(cached) == IF cached.null THEN ArrayOf(<<>>) ELSE cached

\* GetCachedExpenseCategories without the `|| []`
GetCachedExpenseCategoriesRaw(cached) == cached

\* getCachedExpenseCategories: cachedExpenseCategories || []
GetCachedExpenseCategories(cached) == IF cached.null THEN ArrayOf(<<>>) ELSE cached

-----------------------------------------------------------------------------
(* extractCardName *)

\* CardWindow ending at the keyword "category" only
CardWindowToCategory(t) ==
    The({ IF chargeOffset = -1 THEN ""
          ELSE The({ IF categoryIdx = -1 THEN Cleaned(SliceFrom(t, chargeOffset))
                     ELSE Cleaned(Substring(t, chargeOffset, chargeOffset + categoryIdx))
                     : categoryIdx \in
                           {IndexOf(SliceFrom(ToLowerCase(t), chargeOffset), "category")} })
          : chargeOffset \in {ChargeOffset(ToLowerCase(t))} })

\* STEPs 1-4 of extractCardName: the cleaned text between "charge" and the
\* next keyword (the rest, if none); "" when there is no "charge"
CardWindow(t) ==
    The({ IF chargeOffset = -1 THEN ""
          ELSE The({ IF nextKeywordOffset = -1 THEN Cleaned(SliceFrom(t, chargeOffset))
                     ELSE Cleaned(Substring(t, chargeOffset, chargeOffset + nextKeywordOffset))
                     : nextKeywordOffset \in
                           {NextKeywordOffset(SliceFrom(ToLowerCase(t), chargeOffset))} })
          : chargeOffset \in {ChargeOffset(ToLowerCase(t))} })

\* ExtractCardName returning the cleaned text when no entry matches it, as
\* extractExpenseCategory does
ExtractCardNameOrText(t, cached) ==
    IF t = "" THEN ""
    ELSE The({ IF cleanedCardText = ""
               THEN BestMatchFromList(t, GetCachedAccountNames(cached), AccountMinScore)
               ELSE OrElse(BestMatchFromList(cleanedCardText, GetCachedAccountNames(cached),
                                             AccountMinScore),
                           cleanedCardText)
               : cleanedCardText \in {CardWindow(t)} })

\* t: the transcript, cached: the value of cachedAccountNames
ExtractCardName(t, cached) ==
    IF t = "" THEN ""
    ELSE The({ IF cleanedCardText = ""
               THEN BestMatchFromList(t, GetCachedAccountNames(cached), AccountMinScore)
               ELSE BestMatchFromList(cleanedCardText, GetCachedAccountNames(cached),
                                      AccountMinScore)
               : cleanedCardText \in {CardWindow(t)} })

-----------------------------------------------------------------------------
(* extractExpenseCategory *)

\* the offset right after the category keyword ("category is" preferred),
\* -1 when the transcript has no category keyword
CategoryOffset(lower) ==
    The({ IF withIs # -1 THEN withIs + Len("category is")
          ELSE IF plain = -1 THEN -1
          ELSE plain + Len("category")
          : withIs \in {IndexOf(lower, "category is")},
            plain \in {IndexOf(lower, "category")} })

\* the offset, in the text after the category keyword, of the description
\* keyword ("description is" preferred), -1 when none follows
CategoryDescriptionOffset(afterCategoryStart) ==
    The({ IF withIs # -1 THEN withIs ELSE IndexOf(afterCategoryStart, "description")
          : withIs \in {IndexOf(afterCategoryStart, "description is")} })

\* the cleaned category window; "" when there is no category keyword
CategoryWindow(t) ==
    The({ IF categoryOffset = -1 THEN ""
          ELSE The({
              IF descriptionOffset = -1
              THEN Cleaned(SliceFrom(t, categoryOffset))
              ELSE Trim(StripTrailing(StripLeading(
                       Substring(t, categoryOffset, categoryOffset + descriptionOffset),
                       LeadSepSet), TrailSepDotSet))
              : descriptionOffset \in
                    {CategoryDescriptionOffset(SliceFrom(ToLowerCase(t), categoryOffset))} })
          : categoryOffset \in {CategoryOffset(ToLowerCase(t))} })

\* ExtractExpenseCategory returning "" when no entry matches the window, as
\* extractCardName does
ExtractExpenseCategoryListOnly(t, cached) ==
    IF t = "" THEN ""
    ELSE The({ IF categoryText = ""
               THEN BestMatchFromList(t, GetCachedExpenseCategories(cached), CategoryMinScore)
               ELSE BestMatchFromList(categoryText, GetCachedExpenseCategories(cached),
                                      CategoryMinScore)
               : categoryText \in {CategoryWindow(t)} })

\* ExtractExpenseCategory returning the transcript itself when it has no
\* category keyword and no entry matches it
ExtractExpenseCategoryOrTranscript(t, cached) ==
    IF t = "" THEN ""
    ELSE The({ IF categoryText = ""
               THEN OrElse(BestMatchFromList(t, GetCachedExpenseCategories(cached),
                                             CategoryMinScore), t)
               ELSE OrElse(BestMatchFromList(categoryText, GetCachedExpenseCategories(cached),
                                             CategoryMinScore),
                           categoryText)
               : categoryText \in {CategoryWindow(t)} })

\* t: the transcript, cached: the value of cachedExpenseCategories
ExtractExpenseCategory(t, cached) ==
    IF t = "" THEN ""
    ELSE The({ IF categoryText = ""
               THEN BestMatchFromList(t, GetCachedExpenseCategories(cached), CategoryMinScore)
               ELSE OrElse(BestMatchFromList(categoryText, GetCachedExpenseCategories(cached),
                                             CategoryMinScore),
                           categoryText)
               : categoryText \in {CategoryWindow(t)} })

-----------------------------------------------------------------------------
(* extractDescription *)

\* DescriptionOffset looking for the plain keyword "description" only
DescriptionOffsetPlainOnly(lower) ==
    The({ IF plain = -1 THEN -1 ELSE plain + Len("description")
          : plain \in {IndexOf(lower, "description")} })

\* the offset right after the description keyword ("description is"
\* preferred), -1 when the transcript has no description keyword
DescriptionOffset(lower) ==
    The({ IF withIs # -1 THEN withIs + Len("description is")
          ELSE IF plain = -1 THEN -1
          ELSE plain + Len("description")
          : withIs \in {IndexOf(lower, "description is")},
            plain \in {IndexOf(lower, "description")} })

ExtractDescription(t) ==
    IF t = "" THEN ""
    ELSE The({ IF offset = -1 THEN ""
               ELSE Trim(StripLeading(SliceFrom(t, offset), LeadSepSet))
               : offset \in {DescriptionOffset(ToLowerCase(t))} })

-----------------------------------------------------------------------------
(* The clock.  Time is counted in hours from local midnight of 2024-11-02  *)
(* in a zone with United States daylight saving rules; Calendar lists the  *)
(* local days the model's instants fall in, with the hour each starts at   *)
(* and its length (2024-11-03 has 25 hours, 2025-03-09 has 23).            *)

HoursPerDay == 24

Calendar ==
    << [year |-> 2024, month |-> 11, day |-> 2,  start |-> 0,    hours |-> 24],
       [year |-> 2024, month |-> 11, day |-> 3,  start |-> 24,   hours |-> 25],
       [year |-> 2024, month |-> 11, day |-> 4,  start |-> 49,   hours |-> 24],
       [year |-> 2024, month |-> 12, day |-> 30, start |-> 1393, hours |-> 24],
       [year |-> 2024, month |-> 12, day |-> 31, start |-> 1417, hours |-> 24],
       [year |-> 2025, month |-> 1,  day |-> 1,  start |-> 1441, hours |-> 24],
       [year |-> 2025, month |-> 3,  day |-> 8,  start |-> 3025, hours |-> 24],
       [year |-> 2025, month |-> 3,  day |-> 9,  start |-> 3049, hours |-> 23],
       [year |-> 2025, month |-> 3,  day |-> 10, start |-> 3072, hours |-> 24] >>

\* the instants the clock takes, in increasing order: 2024-11-03 23:00,
\* 2024-11-04 12:00, 2024-12-31 12:00, 2025-01-01 12:00, 2025-03-09 12:00,
\* 2025-03-10 00:00
Instants == <<48, 61, 1429, 1453, 3061, 3072>>

\* LocalDate reading the calendar day in UTC, eight hours ahead of local
\* time, as Date.prototype.toISOString does
UtcDate(instant) ==
    Calendar[CHOOSE k \in 1..Len(Calendar) :
                 /\ Calendar[k].start <= instant + 8
                 /\ instant + 8 < Calendar[k].start + Calendar[k].hours]

\* new Date(ms): the local calendar day an instant falls in
LocalDate(instant) ==
    Calendar[CHOOSE k \in 1..Len(Calendar) :
                 /\ Calendar[k].start <= instant
                 /\ instant < Calendar[k].start + Calendar[k].hours]

-----------------------------------------------------------------------------
(* extractDate *)

Months == << "january", "february", "march", "april", "may", "june", "july",
             "august", "september", "october", "november", "december" >>

DateSepSet == {"-", "/"}       \* regex [-/]

\* String(n).padStart(2, "0")
Pad2(n) == PadStart2(NatToString(n))

\* toISODate: "" when a component is falsy (0 or NaN)
ToISODate(year, month, day) ==
    IF year = 0 \/ year = NaN \/ month = 0 \/ month = NaN \/ day = 0 \/ day = NaN THEN ""
    ELSE NatToString(year) \o "-" \o Pad2(month) \o "-" \o Pad2(day)

\* the length of (\d{1,2}) matched greedily at position p, 0 when no digit
Digits12Len(t, p) ==
    IF CharAt(t, p) \notin DigitSet THEN 0
    ELSE IF CharAt(t, p + 1) \in DigitSet THEN 2 ELSE 1

\* 20\d{2} at position p
IsYearAt(t, p) ==
    /\ StartsWithAt(t, p, "20")
    /\ CharAt(t, p + 2) \in DigitSet
    /\ CharAt(t, p + 3) \in DigitSet

NoDateMatch == [found |-> FALSE, y |-> "", m |-> "", d |-> ""]

\* /\b(20\d{2})[-/](\d{1,2})[-/](\d{1,2})\b/ tried at position p
IsoLikeMatchAt(t, p) ==
    The({ The({
        IF /\ WordBoundary(t, p)
           /\ IsYearAt(t, p)
           /\ CharAt(t, p + 4) \in DateSepSet
           /\ ml > 0
           /\ CharAt(t, p + 5 + ml) \in DateSepSet
           /\ dl > 0
           /\ WordBoundary(t, p + 6 + ml + dl)
        THEN [found |-> TRUE, y |-> Substring(t, p, p + 4),
              m |-> Substring(t, p + 5, p + 5 + ml),
              d |-> Substring(t, p + 6 + ml, p + 6 + ml + dl)]
        ELSE NoDateMatch
        : dl \in {Digits12Len(t, p + 6 + ml)} })
        : ml \in {Digits12Len(t, p + 5)} })

\* /\b(\d{1,2})[-/](\d{1,2})[-/](20\d{2})\b/ tried at position p
UsNumericMatchAt(t, p) ==
    The({ The({
        IF /\ WordBoundary(t, p)
           /\ ml > 0
           /\ CharAt(t, p + ml) \in DateSepSet
           /\ dl > 0
           /\ CharAt(t, p + ml + 1 + dl) \in DateSepSet
           /\ IsYearAt(t, p + ml + dl + 2)
           /\ WordBoundary(t, p + ml + dl + 6)
        THEN [found |-> TRUE, y |-> Substring(t, p + ml + dl + 2, p + ml + dl + 6),
              m |-> Substring(t, p, p + ml),
              d |-> Substring(t, p + ml + 1, p + ml + 1 + dl)]
        ELSE NoDateMatch
        : dl \in {Digits12Len(t, p + ml + 1)} })
        : ml \in {Digits12Len(t, p)} })

\* the index in Months of the month name that starts at position p, 0 if none
MonthIndexAt(t, p) ==
    The({ IF hits = {} THEN 0 ELSE Least(hits)
          : hits \in {{i \in 1..Len(Months) : StartsWithAt(t, p, Months[i])}} })

\* the optional (?:st|nd|rd|th)? at position p: its length
OrdinalLen(t, p) ==
    IF Substring(t, p, p + 2) \in {"st", "nd", "rd", "th"} THEN 2 ELSE 0

\* monthRegex tried at position p; m is the month number, y is "" when the
\* optional year group did not take part
MonthTailAt(t, mi, e2, e3) ==
    The({ [found |-> TRUE,
           y |-> IF IsYearAt(t, e6) THEN Substring(t, e6, e6 + 4) ELSE "",
           m |-> NatToString(mi), d |-> Substring(t, e2, e3)]
          : e6 \in {SpanEnd(t, IF CharAt(t, e3 + OrdinalLen(t, e3)) = ","
                               THEN e3 + OrdinalLen(t, e3) + 1
                               ELSE e3 + OrdinalLen(t, e3), SpaceSet)} })

\* monthRegex tried at position p; m is the month number, y is "" when the
\* optional year group did not take part
MonthMatchAt(t, p) ==
    The({ IF ~(WordBoundary(t, p) /\ mi > 0) THEN NoDateMatch
          ELSE The({ IF e2 > p + Len(Months[mi]) /\ Digits12Len(t, e2) > 0
                     THEN MonthTailAt(t, mi, e2, e2 + Digits12Len(t, e2))
                     ELSE NoDateMatch
                     : e2 \in {SpanEnd(t, p + Len(Months[mi]), SpaceSet)} })
          : mi \in {MonthIndexAt(t, p)} })

\* text.match(re): the match at the leftmost position
IsoLikeMatch(t) ==
    The({ IF ps = {} THEN NoDateMatch ELSE IsoLikeMatchAt(t, Least(ps))
          : ps \in {{p \in 0..Len(t) : IsoLikeMatchAt(t, p).found}} })

UsNumericMatch(t) ==
    The({ IF ps = {} THEN NoDateMatch ELSE UsNumericMatchAt(t, Least(ps))
          : ps \in {{p \in 0..Len(t) : UsNumericMatchAt(t, p).found}} })

MonthMatch(t) ==
    The({ IF ps = {} THEN NoDateMatch ELSE MonthMatchAt(t, Least(ps))
          : ps \in {{p \in 0..Len(t) : MonthMatchAt(t, p).found}} })

\* DateFromText trying the month/day/year rule before the year-first rule
DateFromTextUsFirst(text, today, yesterday) ==
    The({ IF usNumeric.found
          THEN ToISODate(ParseInt(usNumeric.y), ParseInt(usNumeric.m), ParseInt(usNumeric.d))
          ELSE IF isoLike.found
          THEN ToISODate(ParseInt(isoLike.y), ParseInt(isoLike.m), ParseInt(isoLike.d))
          ELSE IF monthMatch.found
          THEN ToISODate(IF monthMatch.y # "" THEN ParseInt(monthMatch.y) ELSE today.year,
                         ParseInt(monthMatch.m), ParseInt(monthMatch.d))
          ELSE IF Includes(text, "today") THEN ToISODate(today.year, today.month, today.day)
          ELSE IF Includes(text, "yesterday")
          THEN ToISODate(yesterday.year, yesterday.month, yesterday.day)
          ELSE ToISODate(today.year, today.month, today.day)
          : isoLike \in {IsoLikeMatch(text)},
            usNumeric \in {UsNumericMatch(text)},
            monthMatch \in {MonthMatch(text)} })

\* the rules of extractDate in order; text is the lowercased transcript
DateFromText(text, today, yesterday) ==
    The({ IF isoLike.found
          THEN ToISODate(ParseInt(isoLike.y), ParseInt(isoLike.m), ParseInt(isoLike.d))
          ELSE IF usNumeric.found
          THEN ToISODate(ParseInt(usNumeric.y), ParseInt(usNumeric.m), ParseInt(usNumeric.d))
          ELSE IF monthMatch.found
          THEN ToISODate(IF monthMatch.y # "" THEN ParseInt(monthMatch.y) ELSE today.year,
                         ParseInt(monthMatch.m), ParseInt(monthMatch.d))
          ELSE IF Includes(text, "today") THEN ToISODate(today.year, today.month, today.day)
          ELSE IF Includes(text, "yesterday")
          THEN ToISODate(yesterday.year, yesterday.month, yesterday.day)
          ELSE ToISODate(today.year, today.month, today.day)
          : isoLike \in {IsoLikeMatch(text)},
            usNumeric \in {UsNumericMatch(text)},
            monthMatch \in {MonthMatch(text)} })

\* t: the transcript, instant: the time of the call
ExtractDate(t, instant) ==
    DateFromText(ToLowerCase(t), LocalDate(instant), LocalDate(instant - HoursPerDay))

-----------------------------------------------------------------------------
(* buildExpenseRecordFromTranscript *)

\* the value of `x || ""` for a string x
OrEmpty(x) == IF x = "" THEN "" ELSE x

\* the outcome of a call: threw, or the record returned
BuildExpenseRecordFromTranscript(t, accounts, categories, instant) ==
    The({ IF Threw \in {date, cardName, expenseAmount, expenseCategory, description}
          THEN [threw |-> TRUE, date |-> "", card_name |-> "", expense_amount |-> "",
                expense_category |-> "", description |-> ""]
          ELSE [threw |-> FALSE,
                date |-> OrEmpty(date),
                card_name |-> OrEmpty(cardName),
                expense_amount |-> OrEmpty(expenseAmount),
                expense_category |-> OrEmpty(expenseCategory),
                description |-> OrEmpty(description)]
          : date \in {ExtractDate(t, instant)},
            cardName \in {ExtractCardName(t, accounts)},
            expenseAmount \in {ExtractExpenseAmount(t)},
            expenseCategory \in {ExtractExpenseCategory(t, categories)},
            description \in {ExtractDescription(t)} })

-----------------------------------------------------------------------------
(* Inputs *)

RECURSIVE Words(_, _)
\* the concatenations of at most n fragments of the set V
Words(V, n) ==
    IF n = 0 THEN {""}
    ELSE Words(V, n - 1) \cup {w \o f : w \in Words(V, n - 1), f \in V}

\* reference lists the configuration store may hold (the user edits them)
AccountLists ==
    { ArrayOf(<<"Chase unlimited", "CITI COSTCO", "Wells Fargo 2%">>),
      ArrayOf(<<"Amazon Visa", "Chase freedom">>) }

CategoryLists ==
    { ArrayOf(<<"Grocery", "Gift purchase", "Dining out">>),
      ArrayOf(<<"Misc", "Travel-personal">>) }

InstantSet == {Instants[i] : i \in 1..Len(Instants)}

-----------------------------------------------------------------------------
(* State machine *)

NoCallYet ==
    [made |-> FALSE, t |-> "", names |-> NullList, cats |-> NullList, instant |-> 0,
     result |-> [threw |-> FALSE, date |-> "", card_name |-> "", expense_amount |-> "",
                 expense_category |-> "", description |-> ""]]

\* recordingPath before any path is generated (null), and a path variable
\* that holds no path
NoPath == 0

\* recordingTimeoutRef.current when no timer is referred to (null)
NoTimer == 0

\* App.js after mount and audioService.js after module load: nothing is
\* recording, nobody is signed in, nothing is awaited
AppIdle ==
    /\ isRecording = FALSE
    /\ recordingPath = NoPath
    /\ pathsMade = 0
    /\ appState = [isRecording |-> FALSE, isProcessing |-> FALSE,
                   isGoogleSignedIn |-> FALSE, lastSavedRow |-> NoPath]
    /\ recordingTimeoutRef = NoTimer
    /\ timers = {}
    /\ pressed = FALSE
    /\ calls = 0
    /\ tasks = {}
    /\ log = {}

\* the state after module load: the caches are null, no call has been made
InitWith(transcripts, accountLists, categoryLists, instants) ==
    /\ storedAccountNames \in accountLists
    /\ storedExpenseCategories \in categoryLists
    /\ cachedAccountNames = NullList
    /\ cachedExpenseCategories = NullList
    /\ loadPending = {}
    /\ now \in instants
    /\ transcript \in transcripts
    /\ lastCall = NoCallYet
    /\ prevCall = NoCallYet
    /\ AppIdle

\* the number of loadConfigLists calls that may be awaiting their reads
MaxPending == 1

\* loadConfigLists / refreshConfigLists up to the await: both reads are issued
LoadConfigLists ==
    /\ Cardinality(loadPending) < MaxPending
    /\ loadPending' = loadPending \cup
           {[names |-> storedAccountNames, cats |-> storedExpenseCategories]}
    /\ UNCHANGED <<storedAccountNames, storedExpenseCategories, cachedAccountNames,
                   cachedExpenseCategories, now, transcript, lastCall, prevCall,
                   appVars>>

\* LoadConfigListsDone assigning the account names only: the categories are
\* left for a later step
LoadConfigListsDoneNamesOnly ==
    \E l \in loadPending :
        /\ cachedAccountNames' = l.names
        /\ loadPending' = loadPending \ {l}
        /\ UNCHANGED <<storedAccountNames, storedExpenseCategories, cachedExpenseCategories,
                       now, transcript, lastCall, prevCall, appVars>>

\* loadConfigLists after the await: the destructuring assignment of both lists
LoadConfigListsDone ==
    \E l \in loadPending :
        /\ cachedAccountNames' = l.names
        /\ cachedExpenseCategories' = l.cats
        /\ loadPending' = loadPending \ {l}
        /\ UNCHANGED <<storedAccountNames, storedExpenseCategories, now, transcript,
                       lastCall, prevCall,
                   appVars>>

\* loadConfigLists after the await when a read rejected: the catch branch
\* sets both lists to empty arrays
LoadConfigListsFailed ==
    \E l \in loadPending :
        /\ cachedAccountNames' = ArrayOf(<<>>)
        /\ cachedExpenseCategories' = ArrayOf(<<>>)
        /\ loadPending' = loadPending \ {l}
        /\ UNCHANGED <<storedAccountNames, storedExpenseCategories, now, transcript,
                       lastCall, prevCall,
                   appVars>>

\* saveAccountNames: the user stores another account-name list
SaveAccountNames(accountLists) ==
    \E names \in accountLists :
        /\ names # storedAccountNames
        /\ storedAccountNames' = names
        /\ UNCHANGED <<storedExpenseCategories, cachedAccountNames, cachedExpenseCategories,
                       loadPending, now, transcript, lastCall, prevCall,
                   appVars>>

\* saveExpenseCategories: the user stores another category list
SaveExpenseCategories(categoryLists) ==
    \E categories \in categoryLists :
        /\ categories # storedExpenseCategories
        /\ storedExpenseCategories' = categories
        /\ UNCHANGED <<storedAccountNames, cachedAccountNames, cachedExpenseCategories,
                       loadPending, now, transcript, lastCall, prevCall,
                   appVars>>

\* time passes: the clock moves to a later instant of the given set
Tick(instants) ==
    \E i \in instants :
        /\ i > now
        /\ now' = i
        /\ UNCHANGED <<storedAccountNames, storedExpenseCategories, cachedAccountNames,
                       cachedExpenseCategories, loadPending, transcript, lastCall, prevCall,
                   appVars>>

\* the next transcription arrives: another transcript is about to be parsed
NextTranscript(transcripts) ==
    \E t \in transcripts :
        /\ t # transcript
        /\ transcript' = t
        /\ UNCHANGED <<storedAccountNames, storedExpenseCategories, cachedAccountNames,
                       cachedExpenseCategories, loadPending, now, lastCall, prevCall,
                   appVars>>

\* Build storing the lists it read (`cachedAccountNames || []`) back into
\* the module variables
BuildWritingBack ==
    /\ lastCall' = [made |-> TRUE, t |-> transcript, names |-> cachedAccountNames,
                    cats |-> cachedExpenseCategories, instant |-> now,
                    result |-> BuildExpenseRecordFromTranscript(
                                   transcript, cachedAccountNames,
                                   cachedExpenseCategories, now)]
    /\ prevCall' \in {prevCall, lastCall}
    /\ cachedAccountNames' = GetCachedAccountNames(cachedAccountNames)
    /\ cachedExpenseCategories' = GetCachedExpenseCategories(cachedExpenseCategories)
    /\ UNCHANGED <<storedAccountNames, storedExpenseCategories, loadPending, now, transcript,
                   appVars>>

\* a call of buildExpenseRecordFromTranscript(transcript).  lastCall records
\* it; prevCall keeps an earlier call: the one before it, or one before that
Build ==
    /\ lastCall' = [made |-> TRUE, t |-> transcript, names |-> cachedAccountNames,
                    cats |-> cachedExpenseCategories, instant |-> now,
                    result |-> BuildExpenseRecordFromTranscript(
                                   transcript, cachedAccountNames,
                                   cachedExpenseCategories, now)]
    /\ prevCall' \in {prevCall, lastCall}
    /\ UNCHANGED <<storedAccountNames, storedExpenseCategories, cachedAccountNames,
                   cachedExpenseCategories, loadPending, now, transcript,
                   appVars>>

-----------------------------------------------------------------------------
(* Amount extraction: transcripts whose charge window is a numeral made of *)
(* at most MaxNumFrags fragments followed by a unit phrase                 *)

MaxNumFrags == 2

NumVocab == {"$", "9", "10", "10.9", ",", "."}

AmountUnits ==
    { "", " dollars", " dollar and 5 cents", " dollars and 39 cents",
      " dollars and 123 cents", " cents", " centsx", " to 100" }

AmountExtras ==
    { "", "Charge", "Charge to Chase Unlimited. Category is Misc",
      "Charge $30.50 to Chase. Category is 99 cents. Description is 7 dollars",
      "Charge: . Category 12", "a, dollars", "paid a,b", "007", "010", "10dollars",
      "5 cent" }

AmountTranscripts ==
    {pre \o w \o u : pre \in {"", "Charge "}, w \in Words(NumVocab, MaxNumFrags),
                     u \in AmountUnits}
    \cup AmountExtras

InitAmount ==
    InitWith(AmountTranscripts, {ArrayOf(<<"Chase unlimited", "CITI COSTCO">>)},
             {ArrayOf(<<"Misc">>)}, {Instants[1]})

NextAmount == Build

SpecAmount == InitAmount /\ [][NextAmount]_vars

-----------------------------------------------------------------------------
(* Properties of the amount field *)

AllIn(str, cs) == \A i \in 0..(Len(str) - 1) : CharAt(str, i) \in cs

\* one or more digits, one '.', exactly two digits
IsAmountForm(a) ==
    \E dot \in {IndexOf(a, ".")} :
        /\ dot >= 1
        /\ Len(a) = dot + 3
        /\ AllIn(Substring(a, 0, dot), DigitSet)
        /\ AllIn(SliceFrom(a, dot + 1), DigitSet)

\* C1: the expense_amount of every record is "" or has the form digits,
\* one '.', two digits (no comma), whichever pattern produced it.
C1_AmountForm ==
    lastCall.made =>
        \/ lastCall.result.expense_amount = ""
        \/ IsAmountForm(lastCall.result.expense_amount)

\* the text the amount was searched in at the latest call
LastAmountText == AmountSearchText(lastCall.t)

\* C9: the five patterns are tried in the order verbal dollars, cents
\* only, '$' with commas, bare number (with its guard), plain '$'; the
\* amount is the normalization of the first that matches, "" when none
\* does; 'D dollars and C cents' gives D.CC and not 0.CC.
C9_PatternOrder ==
    (lastCall.made /\ lastCall.t # "") =>
        \E amt \in {lastCall.result.expense_amount},
           p1 \in {DollarsPattern(LastAmountText)},
           p2 \in {CentsOnlyPattern(LastAmountText)},
           p3 \in {DollarSignWithCommasPattern(LastAmountText)},
           p4 \in {NumberWithCommasPattern(LastAmountText)},
           p5 \in {DollarSignPattern(LastAmountText)} :
          \E p4ok \in {p4.found /\ (\/ Includes(p4.g1, ",")
                                    \/ NumGE(ParseInt(RemoveCommas(p4.g1)), 10))} :
            /\ p1.found => amt = DollarsAmount(p1)
            /\ (p1.found /\ p1.g2 # Null) =>
                   /\ Substring(amt, 0, IndexOf(amt, ".")) = RemoveCommas(p1.g1)
                   /\ SliceFrom(amt, IndexOf(amt, ".") + 1) = PadStart2(p1.g2)
            /\ (~p1.found /\ p2.found) => amt = CentsOnlyAmount(p2)
            /\ (~p1.found /\ ~p2.found /\ p3.found) => amt = DollarSignWithCommasAmount(p3)
            /\ (~p1.found /\ ~p2.found /\ ~p3.found /\ p4ok) => amt = NumberWithCommasAmount(p4)
            /\ (~p1.found /\ ~p2.found /\ ~p3.found /\ ~p4ok /\ p5.found) =>
                   amt = DollarSignAmount(p5)
            /\ (~p1.found /\ ~p2.found /\ ~p3.found /\ ~p4ok /\ ~p5.found) => amt = ""

\* C9 witness: a call on a text that both the dollars pattern (with its
\* cents group) and the cents-only pattern match, answered from the dollars
C9_Witness ==
    /\ lastCall.made
    /\ DollarsPattern(LastAmountText).g2 = "39"
    /\ CentsOnlyPattern(LastAmountText).found
    /\ lastCall.result.expense_amount = "10.39"

\* C20: when the searched text has no dollars phrase and has 'N cents',
\* the amount is "0." followed by the digits of N, padded on the left with
\* '0' to two digits and cut to the first two: 5 gives 0.05, 99 gives 0.99.
C20_CentsOnly ==
    (/\ lastCall.made
     /\ lastCall.t # ""
     /\ ~DollarsPattern(LastAmountText).found
     /\ CentsOnlyPattern(LastAmountText).found) =>
        \E amt \in {lastCall.result.expense_amount},
           n \in {CentsOnlyPattern(LastAmountText).g1} :
            /\ amt = "0." \o (IF Len(n) = 1 THEN "0" \o n ELSE Substring(n, 0, 2))
            /\ Len(amt) = 4
            /\ n = "5" => amt = "0.05"
            /\ n = "99" => amt = "0.99"

\* C20 witness: calls on '5 cent' and on '99 cents' without a dollars
\* phrase, answered 0.05 and 0.99
C20_Witness ==
    /\ lastCall.made
    /\ ~DollarsPattern(LastAmountText).found
    /\ \/ CentsOnlyPattern(LastAmountText).g1 = "5" /\ lastCall.result.expense_amount = "0.05"
       \/ CentsOnlyPattern(LastAmountText).g1 = "99" /\ lastCall.result.expense_amount = "0.99"

\* the text has no '$' and no 'dollar' or 'cent' word
IsBareText(text) ==
    /\ ~Includes(text, "$")
    /\ ~Includes(text, "dollar")
    /\ ~Includes(text, "cent")

-----------------------------------------------------------------------------
(* Card names: calls interleaved with loads, refreshes and edits of the    *)
(* stored account-name list                                                 *)

CardPhrases ==
    { "chase UNLIMITED", "to Wells", "it to costcos", "my amazon card", "Discover",
      "-- Chase freedom, ", "chase", "2%" }

CardTails == { "", ". Category food", " description paid with Citi Costco" }

CardExtras ==
    { "", "paid with citi costco yesterday", "Charge", "Charge: . Description Amazon Visa",
      "Charge Description Chase freedom", "Charge,-Category wells fargo", "lunch, 12 dollars",
      "Charge $5 to chase. Description 20 dollars at Costco" }

CardTranscripts ==
    {"Charge " \o x \o tail : x \in CardPhrases, tail \in CardTails} \cup CardExtras

InitCard ==
    InitWith(CardTranscripts, AccountLists, {ArrayOf(<<"Grocery", "Dining out">>)},
             {Instants[1]})

NextCard ==
    \/ LoadConfigLists
    \/ LoadConfigListsDone
    \/ SaveAccountNames(AccountLists)
    \/ Build

SpecCard == InitCard /\ [][NextCard]_vars

\* the entries of a reference list (none for null)
Entries(list) == {list.items[i] : i \in 1..Len(list.items)}

\* C2: whatever loads and refreshes came before, the card_name of a call
\* is "" or identical to an entry of the account-name list cached at the
\* call; it is never text of the transcript.
C2_CardFromList ==
    lastCall.made =>
        \/ lastCall.result.card_name = ""
        \/ lastCall.result.card_name \in Entries(lastCall.names)

\* C2 witness: a call answered, from a refreshed cache that differs from
\* the store, with an entry that the transcript does not contain as written
C2_Witness ==
    /\ lastCall.made
    /\ lastCall.result.card_name \in Entries(lastCall.names)
    /\ ~Includes(lastCall.t, lastCall.result.card_name)
    /\ lastCall.names = cachedAccountNames
    /\ cachedAccountNames # storedAccountNames

\* the list a cache value stands for: null reads as the empty list
ListOrEmpty(list) == IF list.null THEN ArrayOf(<<>>) ELSE list

\* C5: every call, also on the empty transcript, on a transcript without
\* anchor keyword and with empty or not yet loaded lists, returns a record
\* of the five fields, each the result of its extractor (a null list read
\* as the empty list) or ""; no call throws.
C5_NeverThrows ==
    lastCall.made =>
        /\ ~lastCall.result.threw
        /\ lastCall.result.date = ExtractDate(lastCall.t, lastCall.instant)
        /\ lastCall.result.card_name =
               ExtractCardName(lastCall.t, ListOrEmpty(lastCall.names))
        /\ lastCall.result.expense_amount = ExtractExpenseAmount(lastCall.t)
        /\ lastCall.result.expense_category =
               ExtractExpenseCategory(lastCall.t, ListOrEmpty(lastCall.cats))
        /\ lastCall.result.description = ExtractDescription(lastCall.t)
        /\ lastCall.t = "" =>
               /\ lastCall.result.card_name = ""
               /\ lastCall.result.expense_amount = ""
               /\ lastCall.result.expense_category = ""
               /\ lastCall.result.description = ""

\* C5 witness: a call before any load, on a transcript without anchor
\* keyword that names an account, answered with a dated, otherwise empty record
C5_Witness ==
    /\ lastCall.made
    /\ lastCall.names.null
    /\ lastCall.cats.null
    /\ lastCall.t = "paid with citi costco yesterday"
    /\ ~lastCall.result.threw
    /\ lastCall.result.date # ""
    /\ lastCall.result.card_name = ""

\* the text the account matcher is given: the cleaned charge window, the
\* whole transcript when it is empty
CardFragment(t) == IF CardWindow(t) = "" THEN t ELSE CardWindow(t)

\* the positions of the lowercased transcript, at or after position from,
\* where a keyword that ends the charge text begins
ChargeTextEnds(lower, from) ==
    {p \in from..Len(lower) : \/ StartsWithAt(lower, p, "category")
                              \/ StartsWithAt(lower, p, "description")}

\* the text between the first "charge" and the earlier of the next
\* "category" and "description" (the rest of the transcript when neither
\* follows), less the whitespace, ':', ',' and '-' around it; the whole
\* transcript when there is no "charge" or nothing is left of that text
ChargeText(t) ==
    The({ IF c = -1 THEN t
          ELSE The({ The({ IF w = "" THEN t ELSE w
                           : w \in {Cleaned(Substring(t, c + 6,
                                                      IF ends = {} THEN Len(t)
                                                      ELSE Least(ends)))} })
                     : ends \in {ChargeTextEnds(ToLowerCase(t), c + 6)} })
          : c \in {IndexOf(ToLowerCase(t), "charge")} })

\* C17: the account matcher and the amount patterns of a call are given the
\* same text: the cleaned text between the first "charge" and the earlier
\* of the next "category" and "description", and the whole transcript
\* exactly when "charge" is absent or that cleaned text is empty.
C17_SameChargeText ==
    (lastCall.made /\ lastCall.t # "") =>
        \E text \in {ChargeText(lastCall.t)} :
            /\ CardFragment(lastCall.t) = text
            /\ AmountSearchText(lastCall.t) = ToLowerCase(text)
            /\ lastCall.result.card_name =
                   BestMatchFromList(text, ListOrEmpty(lastCall.names), Frac(3, 10))
            /\ lastCall.result.expense_amount = AmountFromText(ToLowerCase(text))

\* C17 witness: a transcript whose description names another account and
\* another amount than the text after "charge"; card and amount are those
\* of the text after "charge"
C17_Witness ==
    /\ lastCall.made
    /\ lastCall.t = "Charge $5 to chase. Description 20 dollars at Costco"
    /\ ChargeText(lastCall.t) = "$5 to chase."
    /\ lastCall.result.card_name = "Chase unlimited"
    /\ lastCall.result.expense_amount = "5.00"

-----------------------------------------------------------------------------
(* Empty lists: calls before the lists are loaded, after a failed load and *)
(* after a load of lists the user has emptied                              *)

EmptyTranscripts ==
    { "", "citi costco grocery", "Charge $5 to citi costco. Category groceries",
      "Category is Grocery. Description x", "Charge 12 dollars, category: ." }

InitEmpty ==
    InitWith(EmptyTranscripts, {ArrayOf(<<>>), ArrayOf(<<"CITI COSTCO">>)},
             {ArrayOf(<<>>), ArrayOf(<<"Grocery">>)}, {Instants[4]})

NextEmpty ==
    \/ LoadConfigLists
    \/ LoadConfigListsDone
    \/ LoadConfigListsFailed
    \/ Build

SpecEmpty == InitEmpty /\ [][NextEmpty]_vars

\* C13: a call made while the account-name list is empty or not loaded
\* returns card_name "" without an error; a call made while the category
\* list is empty or not loaded finds no entry for the whole transcript nor
\* for the category window, so that its expense_category is the cleaned
\* window ("" when there is none), without an error.
C13_EmptyLists ==
    lastCall.made =>
        /\ Entries(lastCall.names) = {} =>
               (~lastCall.result.threw /\ lastCall.result.card_name = "")
        /\ Entries(lastCall.cats) = {} =>
               /\ ~lastCall.result.threw
               /\ \A fragment \in {lastCall.t, CategoryWindow(lastCall.t)} :
                      BestMatchFromList(fragment, ListOrEmpty(lastCall.cats), Frac(1, 4)) = ""
               /\ lastCall.result.expense_category = CategoryWindow(lastCall.t)

\* C13 witness: a call after a load of empty lists, on a transcript naming
\* an account and a category: no card, the category as spoken
C13_Witness ==
    /\ lastCall.made
    /\ ~lastCall.names.null /\ lastCall.names.items = <<>>
    /\ ~lastCall.cats.null /\ lastCall.cats.items = <<>>
    /\ lastCall.t = "Charge $5 to citi costco. Category groceries"
    /\ ~lastCall.result.threw
    /\ lastCall.result.card_name = ""
    /\ lastCall.result.expense_category = "groceries"

-----------------------------------------------------------------------------
(* Plural and singular: category windows and list entries that differ in   *)
(* the number of a word                                                     *)

StemWords == { "utility", "utilities", "grocery", "groceries", "car", "cars" }

StemTranscripts ==
    {"Category " \o w : w \in StemWords}
    \cup { "Category is utilities. Description power bill", "the car, related" }

InitStem ==
    InitWith(StemTranscripts, {ArrayOf(<<"Chase unlimited">>)},
             {ArrayOf(<<"Utilities", "Grocery", "Car related">>)}, {Instants[4]})

NextStem ==
    \/ LoadConfigLists
    \/ LoadConfigListsDone
    \/ Build

SpecStem == InitStem /\ [][NextStem]_vars

\* the fraction of the tokens of a normalized candidate whose stem is among
\* the stemmed tokens of the fragment
StemmedTokenScore(transcriptTokens, candidateNorm) ==
    Frac(Cardinality({i \in TokenStarts(candidateNorm) :
                         StemToken(TokenAt(candidateNorm, i)) \in transcriptTokens}),
         Cardinality(TokenStarts(candidateNorm)))

\* the text the category matcher is given: the cleaned category window, the
\* whole transcript when it is empty
CategoryFragment(t) == IF CategoryWindow(t) = "" THEN t ELSE CategoryWindow(t)

\* C14: a candidate's token score is the fraction of its stemmed tokens that
\* are among the fragment's stemmed tokens, so that its score is never below
\* that fraction, and a fragment that differs from a candidate only in the
\* plural or singular form of a word is answered with a list entry.
C14_StemmedTokenScore ==
    (lastCall.made /\ ~lastCall.cats.null) =>
        \E fragment \in {CategoryFragment(lastCall.t)} :
            \A c \in Entries(lastCall.cats) :
                /\ FracGE(CandidateScore(NormalizeForMatch(fragment), TextTokens(fragment),
                                         NormalizeForMatch(c)),
                          StemmedTokenScore(TextTokens(fragment), NormalizeForMatch(c)))
                /\ StemmedTokenScore(TextTokens(fragment), NormalizeForMatch(c)) = Frac(1, 1)
                       => lastCall.result.expense_category \in Entries(lastCall.cats)

-----------------------------------------------------------------------------
(* The best match: fragments for which several entries score alike, and    *)
(* fragments whose best entry scores exactly the threshold                 *)

MatchTranscripts ==
    { "Charge chase", "Charge to chase freedom", "Charge visa card use", "Charge visa card",
      "Category work", "Category garden", "Category and garden",
      "Charge $5 to chase. Category home", "lunch" }

InitMatch ==
    InitWith(MatchTranscripts,
             {ArrayOf(<<"Chase unlimited", "Chase freedom",
                        "US bank cash plus visa signature card for my use">>)},
             {ArrayOf(<<"Home and garden work", "Garden">>)}, {Instants[4]})

NextMatch ==
    \/ LoadConfigLists
    \/ LoadConfigListsDone
    \/ Build

SpecMatch == InitMatch /\ [][NextMatch]_vars

\* the score max(phraseScore, tokenScore) of entry i of a list for a fragment
ScoreOf(fragment, list, i) ==
    CandidateScore(NormalizeForMatch(fragment), TextTokens(fragment),
                   NormalizeForMatch(list.items[i]))

\* the entries of a list that have a token, by index
Scored(list) == {i \in 1..Len(list.items) : NormalizeForMatch(list.items[i]) # ""}

\* the earliest of the entries of the list with the greatest score, if that
\* score is at least minScore, and "" otherwise
EarliestBest(fragment, list, minScore) ==
    IF Scored(list) = {} THEN ""
    ELSE The({ IF FracGE(ScoreOf(fragment, list, best), minScore)
               THEN list.items[best] ELSE ""
               : best \in {Least({i \in Scored(list) :
                                     \A j \in Scored(list) :
                                         FracGE(ScoreOf(fragment, list, i),
                                                ScoreOf(fragment, list, j))})} })

\* C15: the matcher returns the entry with the greatest score, the earliest
\* of them when several have it, if and only if that score is at least
\* minScore (0.3 for accounts, 0.25 for categories, equality accepted), and
\* "" otherwise.
C15_EarliestBest ==
    (lastCall.made /\ ~lastCall.names.null /\ ~lastCall.cats.null) =>
        /\ lastCall.result.card_name =
               EarliestBest(CardFragment(lastCall.t), lastCall.names, Frac(3, 10))
        /\ \E matched \in {EarliestBest(CategoryFragment(lastCall.t), lastCall.cats,
                                        Frac(1, 4))} :
               lastCall.result.expense_category =
                   IF matched # "" THEN matched ELSE CategoryWindow(lastCall.t)

\* C15 witness: three of the ten tokens of an entry are in the fragment, a
\* score of exactly 0.3, and the entry is returned
C15_Witness ==
    /\ lastCall.made
    /\ ~lastCall.names.null
    /\ ScoreOf(CardFragment(lastCall.t), lastCall.names, 3) = Frac(3, 10)
    /\ lastCall.result.card_name = lastCall.names.items[3]

-----------------------------------------------------------------------------
(* Categories: calls interleaved with loads, refreshes and edits of the    *)
(* stored category list                                                     *)

CategoryPhrases ==
    { " is dining OUT", " groceries", ": Pet supplies,", " is gifts.", " Fuel-", " is travel" }

CategoryTails == { "", ". Description lunch", " description is weekly Grocery run" }

CategoryExtras ==
    { "", "gift purchase for mom", "category", "Category: . Description x",
      "Category is - description dining out", "Charge $5 to chase. Category is Misc",
      "category one category is two" }

CategoryTranscripts ==
    {"Category" \o x \o tail : x \in CategoryPhrases, tail \in CategoryTails}
    \cup CategoryExtras

InitCategory ==
    InitWith(CategoryTranscripts, {ArrayOf(<<"Chase unlimited">>)}, CategoryLists,
             {Instants[1]})

NextCategory ==
    \/ LoadConfigLists
    \/ LoadConfigListsDone
    \/ SaveExpenseCategories(CategoryLists)
    \/ Build

SpecCategory == InitCategory /\ [][NextCategory]_vars

\* the transcript has a category keyword
HasCategoryKeyword(t) == Includes(ToLowerCase(t), "category")

\* C3: with a category keyword and a non-empty cleaned window, the
\* expense_category is the entry the matcher (threshold 0.25) picks for the
\* window from the cached list, and without such an entry it is the cleaned
\* window itself, as the transcript spells it; it is never "".
C3_CategoryPassthrough ==
    (lastCall.made /\ HasCategoryKeyword(lastCall.t) /\ CategoryWindow(lastCall.t) # "") =>
        \E window \in {CategoryWindow(lastCall.t)},
           category \in {lastCall.result.expense_category} :
          \E matched \in {BestMatchFromList(window, ListOrEmpty(lastCall.cats), Frac(1, 4))} :
            /\ category # ""
            /\ matched # "" => (category = matched /\ category \in Entries(lastCall.cats))
            /\ matched = "" => (category = window /\ Includes(lastCall.t, category))

\* C3 witness: a call with loaded categories whose window, in mixed case,
\* matches no entry and is returned as it stands
C3_Witness ==
    /\ lastCall.made
    /\ ~lastCall.cats.null
    /\ CategoryWindow(lastCall.t) = "Pet supplies"
    /\ lastCall.result.expense_category = "Pet supplies"
    /\ lastCall.result.expense_category \notin Entries(lastCall.cats)

\* C12: without a category keyword in the transcript, the expense_category
\* is the match of the whole transcript against the cached category list at
\* threshold 0.25: an entry of the list or "", never text of the transcript.
C12_NoKeywordListOnly ==
    (lastCall.made /\ ~HasCategoryKeyword(lastCall.t)) =>
        /\ lastCall.result.expense_category =
               BestMatchFromList(lastCall.t, ListOrEmpty(lastCall.cats), Frac(1, 4))
        /\ lastCall.result.expense_category \in Entries(lastCall.cats) \cup {""}

\* C12 witness: a transcript without the keyword that names a category in
\* other letters than the list does, answered with the entry
C12_Witness ==
    /\ lastCall.made
    /\ lastCall.t = "gift purchase for mom"
    /\ ~HasCategoryKeyword(lastCall.t)
    /\ lastCall.result.expense_category = "Gift purchase"
    /\ lastCall.result.expense_category \in Entries(lastCall.cats)

\* C16: an expense_category that is not a list entry, returned for a
\* transcript with a category keyword, begins with no whitespace, ':', ','
\* or '-' and ends with no whitespace, ':', ',', '-' or '.', whether or not
\* a description keyword follows the category keyword.
C16_PassthroughCleaned ==
    (/\ lastCall.made
     /\ HasCategoryKeyword(lastCall.t)
     /\ lastCall.result.expense_category \notin Entries(lastCall.cats) \cup {""}) =>
        \E category \in {lastCall.result.expense_category} :
            /\ CharAt(category, 0) \notin LeadSepSet
            /\ CharAt(category, Len(category) - 1) \notin TrailSepDotSet
            /\ Includes(lastCall.t, category)

-----------------------------------------------------------------------------
(* Dates: calls at the instants of the clock *)

DateYears == {"2024", "2025"}
DateMonths == {"0", "1", "12", "13"}
DateDays == {"0", "9", "31"}
DateMonthNames == {"December", "march"}
DateDaySuffixes == {"", "rd", ", 2025", "th 2024"}

DateExtras ==
    { "", "Charge $5 to chase", "lunch today", "paid yesterday", "yesterday not today",
      "on 2024-1-9 or 12/31/2025", "x2024-1-9", "2024-1-123", "december", "may 2025",
      "3/4/2025 or 2024-1-9", "March 3 or 4/5/2025", "today or march 3" }

DateTranscripts ==
    {y \o sep \o m \o sep \o d : y \in DateYears, m \in DateMonths, d \in DateDays,
                                  sep \in {"-"}}
    \cup {m \o sep \o d \o sep \o y : y \in DateYears, m \in DateMonths, d \in DateDays,
                                     sep \in {"/"}}
    \cup {"on " \o mon \o " " \o d \o suf : mon \in DateMonthNames, d \in DateDays,
                                          suf \in DateDaySuffixes}
    \cup DateExtras

InitDate ==
    InitWith(DateTranscripts, {ArrayOf(<<"Chase unlimited">>)}, {ArrayOf(<<"Misc">>)},
             InstantSet)

NextDate == Build \/ Tick(InstantSet)

SpecDate == InitDate /\ [][NextDate]_vars

\* four digits, '-', two digits, '-', two digits
IsDateForm(d) ==
    /\ Len(d) = 10
    /\ AllIn(Substring(d, 0, 4), DigitSet)
    /\ CharAt(d, 4) = "-"
    /\ AllIn(Substring(d, 5, 7), DigitSet)
    /\ CharAt(d, 7) = "-"
    /\ AllIn(Substring(d, 8, 10), DigitSet)

\* C4: the date of every record is non-empty and has the form four digits,
\* '-', two digits, '-', two digits, whichever date rule matched.
C4_DateForm == lastCall.made => IsDateForm(lastCall.result.date)

\* the date a numeric or month-name match stands for; a match without a year
\* takes the year of today
MatchDate(m, today) ==
    ToISODate(IF m.y # "" THEN ParseInt(m.y) ELSE today.year, ParseInt(m.m), ParseInt(m.d))

\* the number of the first date rule that matches somewhere in text: 1 the
\* year-first numeric date, 2 the month/day/year numeric date, 3 the month
\* name with a day, 4 "today", 5 "yesterday"; 6 when none does
FirstDateRule(text) ==
    IF \E p \in 0..Len(text) : IsoLikeMatchAt(text, p).found THEN 1
    ELSE IF \E p \in 0..Len(text) : UsNumericMatchAt(text, p).found THEN 2
    ELSE IF \E p \in 0..Len(text) : MonthMatchAt(text, p).found THEN 3
    ELSE IF \E p \in 0..Len(text) : StartsWithAt(text, p, "today") THEN 4
    ELSE IF \E p \in 0..Len(text) : StartsWithAt(text, p, "yesterday") THEN 5
    ELSE 6

\* C11: the date of a call is the result of the first rule, in the order
\* year-first numeric, month/day/year numeric, month name with day (current
\* year when none is given), "today", "yesterday", that matches anywhere in
\* the lowercased transcript, and the current date when no rule matches.
C11_DatePriority ==
    lastCall.made =>
        \E text \in {ToLowerCase(lastCall.t)}, today \in {LocalDate(lastCall.instant)} :
            \E rule \in {FirstDateRule(text)} :
                lastCall.result.date =
                    CASE rule = 1 -> MatchDate(IsoLikeMatch(text), today)
                      [] rule = 2 -> MatchDate(UsNumericMatch(text), today)
                      [] rule = 3 -> MatchDate(MonthMatch(text), today)
                      [] rule = 5 -> The({ ToISODate(y.year, y.month, y.day)
                                           : y \in {LocalDate(lastCall.instant - HoursPerDay)} })
                      [] OTHER -> ToISODate(today.year, today.month, today.day)

\* C11 witness: a month/day/year date comes first in the transcript and a
\* year-first date after it; the year-first date is returned
C11_Witness ==
    /\ lastCall.made
    /\ lastCall.t = "3/4/2025 or 2024-1-9"
    /\ UsNumericMatch(lastCall.t).found
    /\ lastCall.result.date = "2024-01-09"

\* C18: a date returned for a transcript that a numeric or the month-name
\* rule matched denotes a calendar date: its month is between 01 and 12 and
\* its day between 01 and 31.
C18_CalendarDate ==
    (/\ lastCall.made
     /\ FirstDateRule(ToLowerCase(lastCall.t)) \in {1, 2, 3}
     /\ lastCall.result.date # "") =>
        /\ IsDateForm(lastCall.result.date)
        /\ ParseInt(Substring(lastCall.result.date, 5, 7)) \in 1..12
        /\ ParseInt(Substring(lastCall.result.date, 8, 10)) \in 1..31

\* the calendar day before the local day an instant falls in
DayBefore(instant) ==
    Calendar[CHOOSE k \in 1..(Len(Calendar) - 1) :
                 /\ Calendar[k].start + Calendar[k].hours = Calendar[k + 1].start
                 /\ Calendar[k + 1].start <= instant
                 /\ instant < Calendar[k + 1].start + Calendar[k + 1].hours]

\* C19: when the "yesterday" rule applies, the date is the calendar day
\* right before the local day of the call, at every hour of every day,
\* days of 23 and 25 hours included.
C19_YesterdayIsDayBefore ==
    (lastCall.made /\ FirstDateRule(ToLowerCase(lastCall.t)) = 5) =>
        \E y \in {DayBefore(lastCall.instant)} :
            lastCall.result.date = ToISODate(y.year, y.month, y.day)

-----------------------------------------------------------------------------
(* Repeated calls: the same transcript parsed again after other calls,     *)
(* refreshes of the lists and the passage of time                          *)

RepeatTranscripts ==
    { "lunch with cash", "paid yesterday at Citi Costco",
      "Charge $5 to chase on 2024-1-9. Category is Misc. Description x" }

\* 2024-12-31 12:00 and 18:00, 2025-01-01 12:00
RepeatInstants == {1429, 1435, 1453}

InitRepeat ==
    InitWith(RepeatTranscripts, {ArrayOf(<<"Chase unlimited", "CITI COSTCO">>)},
             {ArrayOf(<<"Misc">>)}, RepeatInstants)

NextRepeat ==
    \/ Build
    \/ NextTranscript(RepeatTranscripts)
    \/ LoadConfigLists
    \/ LoadConfigListsDone
    \/ Tick(RepeatInstants)

SpecRepeat == InitRepeat /\ [][NextRepeat]_vars

\* lastCall and prevCall are two calls with the same transcript and lists
SameCallTwice ==
    /\ lastCall.made
    /\ prevCall.made
    /\ lastCall.t = prevCall.t
    /\ lastCall.names = prevCall.names
    /\ lastCall.cats = prevCall.cats

\* the instants i and j fall in the same local calendar day
SameLocalDay(i, j) ==
    \E k \in 1..Len(Calendar) :
        /\ Calendar[k].start <= i /\ i < Calendar[k].start + Calendar[k].hours
        /\ Calendar[k].start <= j /\ j < Calendar[k].start + Calendar[k].hours

-----------------------------------------------------------------------------
(* The description and what follows its keyword: transcripts made of a     *)
(* prefix that ends in the description keyword and a text after it         *)

DescribePrefixes ==
    { "Charge $5 to citi costco. Category food. Description",
      "memo, DESCRIPTION is" }

DescribeTails ==
    { "", " category is Grocery run", ": - lunch, with Bob. \t",
      " is tea at Wells Fargo $30" }

DescribeExtras == { "lunch with cash" }

DescribeTranscripts ==
    { p \o s : p \in DescribePrefixes, s \in DescribeTails } \cup DescribeExtras

InitDescribe ==
    InitWith(DescribeTranscripts,
             {ArrayOf(<<"Chase unlimited", "CITI COSTCO", "Wells Fargo 2%">>)},
             {ArrayOf(<<"Grocery", "Dining out">>)}, {1453})

NextDescribe ==
    \/ Build
    \/ NextTranscript(DescribeTranscripts)
    \/ LoadConfigLists
    \/ LoadConfigListsDone

SpecDescribe == InitDescribe /\ [][NextDescribe]_vars

\* the position in t right after the description keyword, "description is"
\* before "description", whatever the case of its letters; -1 when t has
\* neither
KeywordEnd(t) ==
    The({ IF IndexOf(lower, "description is") # -1
          THEN 14 + IndexOf(lower, "description is")
          ELSE IF IndexOf(lower, "description") # -1
          THEN 11 + IndexOf(lower, "description")
          ELSE -1
          : lower \in {ToLowerCase(t)} })

\* d is the text of t from position e on, less a leading run of whitespace,
\* ':', ',' and '-' and less the characters from position j on
IsRestOf(d, t, e, j) ==
    \E i \in e..j :
        /\ AllIn(Substring(t, e, i), LeadSepSet)
        /\ d = Substring(t, i, j)
        /\ (d = "" \/ CharAt(d, 0) \notin LeadSepSet)

DescribePrefix(t) == Substring(t, 0, 11 + IndexOf(ToLowerCase(t), "description"))

\* lastCall and prevCall parse, with the same lists, two transcripts that are
\* the same up to and including the description keyword, in which "charge"
\* and a category keyword come before it with non-empty cleaned windows
SamePrefixTwice ==
    /\ lastCall.made
    /\ prevCall.made
    /\ lastCall.names = prevCall.names
    /\ lastCall.cats = prevCall.cats
    /\ Includes(ToLowerCase(lastCall.t), "description")
    /\ Includes(ToLowerCase(prevCall.t), "description")
    /\ DescribePrefix(lastCall.t) = DescribePrefix(prevCall.t)
    /\ Includes(ToLowerCase(DescribePrefix(lastCall.t)), "charge")
    /\ Includes(ToLowerCase(DescribePrefix(lastCall.t)), "category")
    /\ CardWindow(DescribePrefix(lastCall.t)) # ""
    /\ CategoryWindow(DescribePrefix(lastCall.t)) # ""

\* C8: two transcripts identical up to and including the description
\* keyword, with "charge" and a category keyword before it and non-empty
\* cleaned windows, get the same card_name, expense_amount and
\* expense_category: the text after the keyword changes none of them.
C8_DescriptionIndependence ==
    SamePrefixTwice =>
        /\ lastCall.result.card_name = prevCall.result.card_name
        /\ lastCall.result.expense_amount = prevCall.result.expense_amount
        /\ lastCall.result.expense_category = prevCall.result.expense_category

-----------------------------------------------------------------------------
(* Loading and refreshing the cached lists while records are built         *)

LoadTranscripts == { "Charge $5 to chase freedom. Category is misc" }

InitLoad ==
    InitWith(LoadTranscripts, AccountLists, CategoryLists, {Instants[4]})

NextLoad ==
    \/ LoadConfigLists
    \/ LoadConfigListsDone
    \/ LoadConfigListsFailed
    \/ SaveAccountNames(AccountLists)
    \/ SaveExpenseCategories(CategoryLists)
    \/ Build

SpecLoad == InitLoad /\ [][NextLoad]_vars

C30_OnlyLoadsAssign ==
    [][ /\ (lastCall' # lastCall \/ prevCall' # prevCall)
            => /\ cachedAccountNames' = cachedAccountNames
               /\ cachedExpenseCategories' = cachedExpenseCategories
        /\ (cachedAccountNames' # cachedAccountNames
              \/ cachedExpenseCategories' # cachedExpenseCategories)
            => /\ loadPending' # loadPending
               /\ Cardinality(loadPending') < Cardinality(loadPending) ]_vars

\* two calls have been made on loaded lists, which are still the lists read
\* from storage
C30_Witness ==
    /\ lastCall.made /\ prevCall.made
    /\ lastCall.result.card_name = "Chase freedom"
    /\ prevCall.result.expense_category = "Misc"
    /\ cachedAccountNames = storedAccountNames
    /\ cachedExpenseCategories = storedExpenseCategories
    /\ lastCall.names = cachedAccountNames
    /\ lastCall.cats = cachedExpenseCategories

-----------------------------------------------------------------------------
(* The recorder (src/src/services/audioService.js) and the component that  *)
(* drives it (src/App.js).  An asynchronous execution that is awaiting      *)
(* something is a task: who started it (by, n), what it awaits (pc), its    *)
(* local path variable and the isGoogleSignedIn value its closure holds:    *)
(* that of the render whose handler started it.  A step runs one            *)
(* synchronous stretch of JavaScript, from the completion of an awaited     *)
(* operation (or from an event) to the next await.  The component is        *)
(* rendered anew before the next event is handled, so that the handlers of  *)
(* an event read the state set so far.                                      *)

\* the number of calls of the exported service functions made from outside
\* App.js
MaxCalls == 3

\* the number of presses of the record button
MaxPresses == 2

\* the number of presses of the record button where one recording is
\* followed through its processing
MaxRecordings == 1

Task(by, n, pc, path, signedIn) ==
    [by |-> by, n |-> n, pc |-> pc, path |-> path, isGoogleSignedIn |-> signedIn]

Entry(op, by, n, path, text, signedIn) ==
    [op |-> op, by |-> by, n |-> n, path |-> path, text |-> text, signedIn |-> signedIn]

\* the task goes on to await something else
Goes(t, pc, path) == (tasks \ {t}) \cup {Task(t.by, t.n, pc, path, t.isGoogleSignedIn)}

\* the tasks of App.js: the executions started by the handlers and the timer
InApp(t) == t.by \in {"pressIn", "pressOut", "timer"}

uiVars == <<appState, recordingTimeoutRef, timers, pressed>>

parseVars == <<storedAccountNames, storedExpenseCategories, cachedAccountNames,
               cachedExpenseCategories, loadPending, now>>

callVars == <<transcript, lastCall, prevCall>>

(* audioService.js: what each stretch does to the module variables *)

\* startRecording, lines 62-69: the path is made from the time stamp and
\* stored, then startRecorder is called
StartRecorderCalled(path) ==
    /\ recordingPath' = path
    /\ pathsMade' = path
    /\ UNCHANGED isRecording

\* startRecording, lines 76-77: startRecorder has resolved
StartRecorderResolved ==
    /\ isRecording' = TRUE
    /\ UNCHANGED <<recordingPath, pathsMade>>

\* stopRecording, lines 94-102: stopRecorder has resolved
StopRecorderResolved ==
    /\ isRecording' = FALSE
    /\ UNCHANGED <<recordingPath, pathsMade>>

\* StopRecorderRejected leaving the flag as it is
StopRecorderRejectedFlagKept ==
    UNCHANGED <<isRecording, recordingPath, pathsMade>>

\* stopRecording, lines 103-107: stopRecorder has rejected
StopRecorderRejected ==
    /\ isRecording' = FALSE
    /\ UNCHANGED <<recordingPath, pathsMade>>

(* App.js: the stretches of startRecordingProcess and stopRecordingAndProcess *)

\* the timers left armed by clearTimeout(recordingTimeoutRef.current)
Cleared(armed) == {x \in armed : x.n # recordingTimeoutRef}

\* startRecordingProcess, lines 208-217: startRecording has thrown
StartFailed ==
    /\ timers' = Cleared(timers)
    /\ recordingTimeoutRef' = NoTimer
    /\ UNCHANGED <<appState, pressed>>

\* startRecordingProcess, lines 198-207: startRecording has returned
StartSucceeded(t) ==
    /\ appState' = [appState EXCEPT !.isRecording = TRUE]
    /\ timers' = timers \cup {[n |-> t.n, isGoogleSignedIn |-> t.isGoogleSignedIn,
                                due |-> FALSE]}
    /\ recordingTimeoutRef' = t.n
    /\ UNCHANGED pressed

\* stopRecordingAndProcess, lines 220-240, up to the await of stopRecorder
\* inside stopRecording; armed are the timers that have not fired
StopRecordingAndProcess(by, n, signedIn, armed) ==
    /\ timers' = Cleared(armed)
    /\ recordingTimeoutRef' = NoTimer
    /\ IF ~isRecording
       THEN /\ appState' = [appState EXCEPT !.isRecording = FALSE]
            /\ UNCHANGED <<tasks, log>>
       ELSE /\ appState' = [appState EXCEPT !.isProcessing = TRUE, !.isRecording = FALSE]
            /\ tasks' = tasks \cup {Task(by, n, "stopRecorder", NoPath, signedIn)}
            /\ log' = log \cup {Entry("stopRecorder", by, n, recordingPath, "", FALSE)}
    /\ UNCHANGED <<audioVars, calls, parseVars, callVars>>

\* stopRecordingAndProcess, lines 308-315: the finally block of task t, whose
\* local recordingPath is path; st is the state the try block has set
Finally(t, path, st) ==
    /\ appState' = [st EXCEPT !.isProcessing = FALSE]
    /\ tasks' = IF path # NoPath THEN Goes(t, "cleanupRecording", path) ELSE tasks \ {t}
    /\ UNCHANGED <<recordingTimeoutRef, timers, pressed>>

(* The steps *)

\* handleGoogleSignIn, lines 105-108, from the completion of the sign-in
GoogleSignedIn ==
    /\ ~appState.isGoogleSignedIn
    /\ appState' = [appState EXCEPT !.isGoogleSignedIn = TRUE]
    /\ UNCHANGED <<audioVars, recordingTimeoutRef, timers, pressed, calls, tasks,
                   log, parseVars, callVars>>

\* handleGoogleSignOut, lines 122-124, from the completion of the sign-out
GoogleSignedOut ==
    /\ appState.isGoogleSignedIn
    /\ appState' = [appState EXCEPT !.isGoogleSignedIn = FALSE]
    /\ UNCHANGED <<audioVars, recordingTimeoutRef, timers, pressed, calls, tasks,
                   log, parseVars, callVars>>

\* the button is pressed, if it was pressed fewer than max times:
\* handleRecordButtonPressIn, startRecordingProcess and startRecording up to
\* the await of the permission request
HandleRecordButtonPressIn(max) ==
    /\ ~pressed
    /\ calls < max
    /\ ~appState.isProcessing
    /\ pressed' = TRUE
    /\ calls' = calls + 1
    /\ IF appState.isRecording
       THEN UNCHANGED <<timers, recordingTimeoutRef, tasks>>
       ELSE IF isRecording
            THEN /\ timers' = Cleared(timers)
                 /\ recordingTimeoutRef' = NoTimer
                 /\ UNCHANGED tasks
            ELSE /\ tasks' = tasks \cup {Task("pressIn", calls + 1, "requestAudioPermissions",
                                              NoPath, appState.isGoogleSignedIn)}
                 /\ UNCHANGED <<timers, recordingTimeoutRef>>
    /\ UNCHANGED <<audioVars, appState, log, parseVars, callVars>>

\* the button is released: handleRecordButtonPressOut, unless the button is
\* disabled
HandleRecordButtonPressOut ==
    /\ pressed
    /\ pressed' = FALSE
    /\ IF appState.isProcessing \/ ~appState.isRecording
       THEN UNCHANGED <<audioVars, appState, recordingTimeoutRef, timers, calls,
                        tasks, log, parseVars, callVars>>
       ELSE StopRecordingAndProcess("pressOut", calls, appState.isGoogleSignedIn, timers)

\* the 30 seconds of the armed timers pass.  What the handlers await takes
\* less than that: nothing that was awaited when a timer was armed is still
\* awaited when it fires
ThirtySecondsPass ==
    /\ tasks = {}
    /\ \E x \in timers : ~x.due
    /\ timers' = {[x EXCEPT !.due = TRUE] : x \in timers}
    /\ UNCHANGED <<audioVars, appState, recordingTimeoutRef, pressed, calls, tasks, log,
                   parseVars, callVars>>

\* an auto-stop timer fires: the callback of lines 202-207
AutoStop ==
    \E x \in timers :
        /\ x.due
        /\ IF isRecording
           THEN StopRecordingAndProcess("timer", x.n, x.isGoogleSignedIn, timers \ {x})
           ELSE /\ timers' = timers \ {x}
                /\ UNCHANGED <<audioVars, appState, recordingTimeoutRef, calls,
                               tasks, log, parseVars, callVars>>
        /\ UNCHANGED pressed

\* startRecording is called from outside App.js
CallStartRecording ==
    /\ calls < MaxCalls
    /\ calls' = calls + 1
    /\ IF isRecording
       THEN /\ log' = log \cup {Entry("startRecording", "start", calls + 1, NoPath,
                                      "Recording already in progress", FALSE)}
            /\ UNCHANGED tasks
       ELSE /\ tasks' = tasks \cup {Task("start", calls + 1, "requestAudioPermissions",
                                         NoPath, FALSE)}
            /\ UNCHANGED log
    /\ UNCHANGED <<audioVars, uiVars, parseVars, callVars>>

\* requestAudioPermissions returns false: startRecording throws
PermissionDenied(t) ==
    /\ t.pc = "requestAudioPermissions"
    /\ tasks' = tasks \ {t}
    /\ IF InApp(t)
       THEN StartFailed /\ UNCHANGED log
       ELSE /\ log' = log \cup {Entry("startRecording", t.by, t.n, NoPath,
                                      "Microphone permission denied", FALSE)}
            /\ UNCHANGED uiVars
    /\ UNCHANGED <<audioVars, calls, parseVars, callVars>>

\* requestAudioPermissions returns true: the path is stored and the
\* recorder start is requested
PermissionGranted(t) ==
    /\ t.pc = "requestAudioPermissions"
    /\ StartRecorderCalled(pathsMade + 1)
    /\ tasks' = Goes(t, "startRecorder", pathsMade + 1)
    /\ UNCHANGED <<uiVars, calls, log, parseVars, callVars>>

\* startRecorder resolves: startRecording returns
StartRecorderResolves(t) ==
    /\ t.pc = "startRecorder"
    /\ StartRecorderResolved
    /\ tasks' = tasks \ {t}
    /\ IF InApp(t)
       THEN StartSucceeded(t) /\ UNCHANGED log
       ELSE /\ log' = log \cup {Entry("startRecording", t.by, t.n, t.path, "", FALSE)}
            /\ UNCHANGED uiVars
    /\ UNCHANGED <<calls, parseVars, callVars>>

\* startRecorder rejects: startRecording throws the error on
StartRecorderRejects(t) ==
    /\ t.pc = "startRecorder"
    /\ tasks' = tasks \ {t}
    /\ IF InApp(t)
       THEN StartFailed /\ UNCHANGED log
       ELSE /\ log' = log \cup {Entry("startRecording", t.by, t.n, NoPath,
                                      "startRecorder rejected", FALSE)}
            /\ UNCHANGED uiVars
    /\ UNCHANGED <<audioVars, calls, parseVars, callVars>>

\* stopRecording is called from outside App.js
CallStopRecording ==
    /\ calls < MaxCalls
    /\ calls' = calls + 1
    /\ IF ~isRecording
       THEN /\ log' = log \cup {Entry("stopRecording", "stop", calls + 1, NoPath,
                                      "No recording in progress", FALSE)}
            /\ UNCHANGED tasks
       ELSE /\ tasks' = tasks \cup {Task("stop", calls + 1, "stopRecorder", NoPath, FALSE)}
            /\ log' = log \cup {Entry("stopRecorder", "stop", calls + 1, recordingPath, "",
                                      FALSE)}
    /\ UNCHANGED <<audioVars, uiVars, parseVars, callVars>>

\* stopRecorder resolves: stopRecording returns recordingPath, and
\* stopRecordingAndProcess sends the file to the transcription service
StopRecorderResolves(t) ==
    /\ t.pc = "stopRecorder"
    /\ StopRecorderResolved
    /\ IF InApp(t)
       THEN IF recordingPath = NoPath
            THEN Finally(t, NoPath, appState) /\ UNCHANGED log
            ELSE /\ tasks' = Goes(t, "sendAudioToTranscriptionAPI", recordingPath)
                 /\ log' = log \cup {Entry("sendAudioToTranscriptionAPI", t.by, t.n,
                                           recordingPath, "", FALSE)}
                 /\ UNCHANGED uiVars
       ELSE /\ tasks' = tasks \ {t}
            /\ log' = log \cup
                   {Entry("stopRecording", t.by, t.n, recordingPath,
                          IF recordingPath = NoPath THEN "Recording path not found" ELSE "",
                          FALSE)}
            /\ UNCHANGED uiVars
    /\ UNCHANGED <<calls, parseVars, callVars>>

\* stopRecorder rejects: stopRecording throws the error on, and
\* stopRecordingAndProcess goes through catch to finally
StopRecorderRejects(t) ==
    /\ t.pc = "stopRecorder"
    /\ StopRecorderRejected
    /\ IF InApp(t)
       THEN Finally(t, NoPath, appState) /\ UNCHANGED log
       ELSE /\ tasks' = tasks \ {t}
            /\ log' = log \cup {Entry("stopRecording", t.by, t.n, NoPath,
                                      "stopRecorder rejected", FALSE)}
            /\ UNCHANGED uiVars
    /\ UNCHANGED <<calls, parseVars, callVars>>

\* the answers of the transcription service: the request throws, or it
\* resolves to nothing, or to an object whose text and transcript fields
\* are strings or absent (Null)
Responses ==
    { [threw |-> TRUE,  nothing |-> FALSE, text |-> Null, transcript |-> Null],
      [threw |-> FALSE, nothing |-> TRUE,  text |-> Null, transcript |-> Null],
      [threw |-> FALSE, nothing |-> FALSE, text |-> Null, transcript |-> Null],
      [threw |-> FALSE, nothing |-> FALSE, text |-> "", transcript |-> Null],
      [threw |-> FALSE, nothing |-> FALSE, text |-> "  ", transcript |-> Null],
      [threw |-> FALSE, nothing |-> FALSE, text |-> " Charge $5 to chase ", transcript |-> Null],
      [threw |-> FALSE, nothing |-> FALSE, text |-> Null, transcript |-> "taxi 12 dollars"] }

\* stopRecordingAndProcess, lines 259-264: textField
TextField(r) ==
    IF r.text # Null THEN r.text ELSE IF r.transcript # Null THEN r.transcript ELSE ""

\* stopRecordingAndProcess, line 267: the text that `if (textField)` tests
UsableText(r) == TextField(r)

\* the call buildExpenseRecordFromTranscript(text) as lastCall records it
CallOn(text) ==
    [made |-> TRUE, t |-> text, names |-> cachedAccountNames,
     cats |-> cachedExpenseCategories, instant |-> now,
     result |-> BuildExpenseRecordFromTranscript(text, cachedAccountNames,
                                                 cachedExpenseCategories, now)]

\* the transcription request of task t is answered: stopRecordingAndProcess,
\* lines 250-303, up to the await of appendExpenseRecordToSheet (which
\* starts by reading the spreadsheet id) or through finally
TranscriptionAnswers(t, r) ==
    /\ t.pc = "sendAudioToTranscriptionAPI"
    /\ IF r.threw \/ r.nothing \/ UsableText(r) = ""
       THEN /\ Finally(t, t.path, appState)
            /\ UNCHANGED <<log, callVars>>
       ELSE /\ transcript' = Trim(TextField(r))
            /\ lastCall' = CallOn(Trim(TextField(r)))
            /\ prevCall' = prevCall
            /\ IF t.isGoogleSignedIn
               THEN /\ tasks' = Goes(t, "getSpreadsheetId", t.path)
                    /\ log' = log \cup {Entry("appendExpenseRecordToSheet", t.by, t.n, t.path,
                                              Trim(TextField(r)), appState.isGoogleSignedIn)}
                    /\ UNCHANGED uiVars
               ELSE /\ Finally(t, t.path, [appState EXCEPT !.lastSavedRow = NoPath])
                    /\ UNCHANGED log
    /\ UNCHANGED <<audioVars, calls, parseVars>>

\* cleanupRecording has completed: stopRecordingAndProcess ends
CleanupDone(t) ==
    /\ t.pc = "cleanupRecording"
    /\ tasks' = tasks \ {t}
    /\ UNCHANGED <<audioVars, uiVars, calls, log, parseVars, callVars>>

(* parsingLogic.js: appendExpenseRecordToSheet *)

\* the HTTP status that makes appendExpenseRecordToSheet refresh the token
Unauthorized == 401

\* the answers to the append request; 0 stands for a request that failed
\* without an answer
Statuses == {0, 200, Unauthorized, 403}

\* appendExpenseRecordToSheet is called from outside App.js
CallAppendExpenseRecordToSheet ==
    /\ calls < MaxCalls
    /\ calls' = calls + 1
    /\ tasks' = tasks \cup {Task("append", calls + 1, "getSpreadsheetId", NoPath, FALSE)}
    /\ log' = log \cup {Entry("appendExpenseRecordToSheet", "append", calls + 1, NoPath,
                              transcript, FALSE)}
    /\ UNCHANGED <<audioVars, uiVars, parseVars, callVars>>

\* appendExpenseRecordToSheet returns the saved row (lines 1130-1141); in
\* App.js, lines 280-282 and finally
AppendReturns(t) ==
    IF InApp(t)
    THEN /\ Finally(t, t.path, [appState EXCEPT !.lastSavedRow = t.path])
         /\ UNCHANGED log
    ELSE /\ tasks' = tasks \ {t}
         /\ log' = log \cup {Entry("returned", t.by, t.n, NoPath, "", FALSE)}
         /\ UNCHANGED uiVars

\* appendExpenseRecordToSheet throws; signIn tells whether the message
\* includes 'Authentication' or 'sign in'; in App.js, lines 283-292 and finally
AppendThrows(t, signIn) ==
    IF InApp(t)
    THEN /\ Finally(t, t.path,
                    [appState EXCEPT !.lastSavedRow = NoPath,
                                     !.isGoogleSignedIn = IF signIn THEN FALSE ELSE @])
         /\ UNCHANGED log
    ELSE /\ tasks' = tasks \ {t}
         /\ log' = log \cup {Entry("threw", t.by, t.n, NoPath,
                                   IF signIn THEN "Please sign in again" ELSE "Failed", FALSE)}
         /\ UNCHANGED uiVars

\* lines 1062-1067: getSpreadsheetId has answered
SpreadsheetIdRead(t, configured) ==
    /\ t.pc = "getSpreadsheetId"
    /\ IF configured
       THEN /\ tasks' = Goes(t, "getAccessToken", t.path)
            /\ UNCHANGED <<uiVars, log>>
       ELSE AppendThrows(t, FALSE)
    /\ UNCHANGED <<audioVars, calls, parseVars, callVars>>

\* lines 1070-1099: getAccessToken has returned a token (the stored one or a
\* refreshed one) or has thrown; the request is sent
AccessTokenRead(t, token) ==
    /\ t.pc = "getAccessToken"
    /\ IF token
       THEN /\ tasks' = Goes(t, "fetch", t.path)
            /\ UNCHANGED <<uiVars, log>>
       ELSE AppendThrows(t, TRUE)
    /\ UNCHANGED <<audioVars, calls, parseVars, callVars>>

\* lines 1101-1141: the server has answered, or the request has failed
FetchAnswers(t, status) ==
    /\ t.pc = "fetch"
    /\ IF status = 200
       THEN AppendReturns(t)
       ELSE IF status = Unauthorized
            THEN /\ tasks' = Goes(t, "refreshAccessToken", t.path)
                 /\ UNCHANGED <<uiVars, log>>
            ELSE AppendThrows(t, FALSE)
    /\ UNCHANGED <<audioVars, calls, parseVars, callVars>>

\* lines 1114-1120: refreshAccessToken has returned, and the function calls
\* itself again, or has thrown
TokenRefreshed(t, token) ==
    /\ t.pc = "refreshAccessToken"
    /\ IF token
       THEN /\ tasks' = Goes(t, "getSpreadsheetId", t.path)
            /\ UNCHANGED <<uiVars, log>>
       ELSE AppendThrows(t, TRUE)
    /\ UNCHANGED <<audioVars, calls, parseVars, callVars>>

-----------------------------------------------------------------------------
(* The recorder service called from outside App.js                         *)

NoTranscripts == {""}

InitRecorder ==
    InitWith(NoTranscripts, {ArrayOf(<<>>)}, {ArrayOf(<<>>)}, {Instants[4]})

NextRecorder ==
    \/ CallStartRecording
    \/ CallStopRecording
    \/ \E t \in tasks : PermissionDenied(t)
    \/ \E t \in tasks : PermissionGranted(t)
    \/ \E t \in tasks : StartRecorderResolves(t)
    \/ \E t \in tasks : StartRecorderRejects(t)
    \/ \E t \in tasks : StopRecorderResolves(t)
    \/ \E t \in tasks : StopRecorderRejects(t)

SpecRecorder == InitRecorder /\ [][NextRecorder]_vars

\* a startRecording call that has passed the check of isRecording and has
\* not yet returned or thrown
Starting(t) == t.pc \in {"requestAudioPermissions", "startRecorder"}

\* C21: a startRecording call gets past its check of isRecording, to the
\* permission request, the assignment of recordingPath and the recorder
\* start, only when no other startRecording call is past that check and no
\* recording is in progress: a call made while another one is awaiting, or
\* has succeeded and was not stopped, fails with "Recording already in
\* progress".
C21_NoSecondStart ==
    \A t \in tasks :
        Starting(t) => /\ ~isRecording
                       /\ \A u \in tasks : Starting(u) => u = t

\* C28: a stopRecording call made while isRecording is false fails with
\* "No recording in progress" without asking the recorder to stop, and only
\* such a call fails so; in the step in which a stopRecording call that
\* found a recording in progress returns or throws, isRecording becomes
\* false; the path a stopRecording call returns is the path generated last.
C28_StopRecording ==
    [][ /\ (calls' # calls /\ ~isRecording /\ \E e \in log' \ log : e.by = "stop")
            => /\ tasks' = tasks
               /\ log' = log \cup {Entry("stopRecording", "stop", calls', NoPath,
                                         "No recording in progress", FALSE)}
        /\ \A e \in log' \ log : e.text = "No recording in progress" => ~isRecording
        /\ \A t \in tasks \ tasks' : t.pc = "stopRecorder" => ~isRecording'
        /\ \A e \in log' \ log :
               (e.op = "stopRecording" /\ e.text = "")
                   => /\ e.path # NoPath
                      /\ e.path = pathsMade
                      /\ e.path = recordingPath' ]_vars

\* the recorder was stopped and its path returned, a later stop found no
\* recording in progress, and isRecording is false
C28_Witness ==
    /\ ~isRecording
    /\ \E e \in log : e.op = "stopRecording" /\ e.text = "" /\ e.path = pathsMade
    /\ \E e \in log : e.op = "stopRecording" /\ e.text = "No recording in progress"

-----------------------------------------------------------------------------
(* The component: presses of the record button, the auto-stop timer,       *)
(* sign-in and sign-out, re-renders, and the completions of what the       *)
(* handlers await                                                          *)

InitApp ==
    InitWith(NoTranscripts, {ArrayOf(<<"Chase unlimited">>)}, {ArrayOf(<<"Misc">>)},
             {Instants[4]})

StartStep(t) ==
    \/ PermissionDenied(t)
    \/ PermissionGranted(t)
    \/ StartRecorderResolves(t)
    \/ StartRecorderRejects(t)

StopStep(t) ==
    \/ StopRecorderResolves(t)
    \/ StopRecorderRejects(t)
    \/ CleanupDone(t)

AppendStep(t) ==
    \/ \E configured \in BOOLEAN : SpreadsheetIdRead(t, configured)
    \/ \E token \in BOOLEAN : AccessTokenRead(t, token)
    \/ \E status \in Statuses : FetchAnswers(t, status)
    \/ \E token \in BOOLEAN : TokenRefreshed(t, token)

NextApp ==
    \/ GoogleSignedIn
    \/ GoogleSignedOut
    \/ HandleRecordButtonPressIn(MaxRecordings)
    \/ HandleRecordButtonPressOut
    \/ ThirtySecondsPass
    \/ AutoStop
    \/ \E t \in tasks : StartStep(t)
    \/ \E t \in tasks : StopStep(t)
    \/ \E t \in tasks : \E r \in Responses : TranscriptionAnswers(t, r)
    \/ \E t \in tasks : AppendStep(t)

SpecApp == InitApp /\ [][NextApp]_vars

\* every awaited operation completes, 30 seconds pass, a due timer fires and
\* a held button is released
FairApp ==
    /\ WF_vars(\E t \in tasks : StartStep(t))
    /\ WF_vars(\E t \in tasks : StopStep(t))
    /\ WF_vars(\E t \in tasks : \E r \in Responses : TranscriptionAnswers(t, r))
    /\ WF_vars(\E t \in tasks : AppendStep(t))
    /\ WF_vars(ThirtySecondsPass)
    /\ WF_vars(AutoStop)
    /\ WF_vars(HandleRecordButtonPressOut)

SpecAppFair == SpecApp /\ FairApp

\* an execution of stopRecordingAndProcess that has not finished its finally
\* block, cleanupRecording included
Processing(t) ==
    /\ InApp(t)
    /\ t.pc \notin {"requestAudioPermissions", "startRecorder"}

\* C25: every execution of stopRecordingAndProcess that has set isProcessing
\* eventually sets it back to false and finishes, the recording file that
\* stopRecording returned deleted, whatever transcription and append do.
C25_ProcessingEnds ==
    appState.isProcessing ~> (~appState.isProcessing /\ \A t \in tasks : ~Processing(t))

\* the invocations of appendExpenseRecordToSheet by stopRecordingAndProcess
Appends == { e \in log : e.op = "appendExpenseRecordToSheet" /\ e.by # "append" }

\* C26: stopRecordingAndProcess invokes appendExpenseRecordToSheet only when
\* the user is signed in to Google (the component's isGoogleSignedIn state)
\* at the time the record is processed.
C26_AppendOnlySignedIn == \A e \in Appends : e.signedIn

\* C27: buildExpenseRecordFromTranscript and appendExpenseRecordToSheet are
\* reached only with a transcript text that is not empty after trimming.
C27_NoEmptyText ==
    /\ lastCall.made => lastCall.t # ""
    /\ \A e \in Appends : e.text # ""

-----------------------------------------------------------------------------
(* Presses, releases and auto-stop timers of several recordings; the       *)
(* transcription service answers with a text or fails, the sheet accepts    *)
(* what is appended                                                        *)

PressResponses == {r \in Responses : r.threw \/ r.transcript # Null}

NextPress ==
    \/ GoogleSignedIn
    \/ HandleRecordButtonPressIn(MaxPresses)
    \/ HandleRecordButtonPressOut
    \/ ThirtySecondsPass
    \/ AutoStop
    \/ \E t \in tasks : StartStep(t)
    \/ \E t \in tasks : StopStep(t)
    \/ \E t \in tasks : \E r \in PressResponses : TranscriptionAnswers(t, r)
    \/ \E t \in tasks : SpreadsheetIdRead(t, TRUE)
    \/ \E t \in tasks : AccessTokenRead(t, TRUE)
    \/ \E t \in tasks : FetchAnswers(t, 200)

SpecPress == InitApp /\ [][NextPress]_vars

\* the requests that process a recording
ProcessingOps == {"stopRecorder", "sendAudioToTranscriptionAPI", "appendExpenseRecordToSheet"}

\* C22: for every recording (named by its path) the recorder stop, the
\* transcription request and the sheet append are each requested at most
\* once, whether the press-out handler, the auto-stop timer or both act on it.
C22_ProcessedAtMostOnce ==
    \A e \in log : \A f \in log :
        (e.op \in ProcessingOps /\ e.op = f.op /\ e.path = f.path) => e = f

\* What is awaited completes, the 30 seconds of an armed timer pass and a
\* due timer fires, and a button that is held is released
FairPress ==
    /\ WF_vars(\E t \in tasks : StartStep(t))
    /\ WF_vars(\E t \in tasks : StopStep(t))
    /\ WF_vars(\E t \in tasks : \E r \in PressResponses : TranscriptionAnswers(t, r))
    /\ WF_vars(\E t \in tasks : SpreadsheetIdRead(t, TRUE))
    /\ WF_vars(\E t \in tasks : AccessTokenRead(t, TRUE))
    /\ WF_vars(\E t \in tasks : FetchAnswers(t, 200))
    /\ WF_vars(ThirtySecondsPass)
    /\ WF_vars(AutoStop)
    /\ WF_vars(HandleRecordButtonPressOut)

SpecPressFair == SpecPress /\ FairPress

\* C23: whenever a recording has started (startRecording has set
\* isRecording), the recorder is eventually stopped for it (stopRecording
\* resets isRecording on its way to processing), by the press-out handler or
\* by the auto-stop timer.
C23_EventuallyStopped == isRecording ~> ~isRecording

-----------------------------------------------------------------------------
(* appendExpenseRecordToSheet called from outside App.js                   *)

NextAppend ==
    \/ CallAppendExpenseRecordToSheet
    \/ \E t \in tasks : \E configured \in BOOLEAN : SpreadsheetIdRead(t, configured)
    \/ \E t \in tasks : \E token \in BOOLEAN : AccessTokenRead(t, token)
    \/ \E t \in tasks : \E status \in Statuses : FetchAnswers(t, status)
    \/ \E t \in tasks : \E token \in BOOLEAN : TokenRefreshed(t, token)

SpecAppend == InitRecorder /\ [][NextAppend]_vars

\* the call numbered n is awaiting something
Awaiting(n) == \E t \in tasks : t.n = n

\* Whatever a call awaits (the stored spreadsheet id, the access token, the
\* server's answer, the refreshed token) completes, with one outcome or another
FairAppend ==
    \A n \in 1..MaxCalls :
        /\ WF_vars(\E t \in tasks : \E configured \in BOOLEAN :
                       t.n = n /\ SpreadsheetIdRead(t, configured))
        /\ WF_vars(\E t \in tasks : \E token \in BOOLEAN : t.n = n /\ AccessTokenRead(t, token))
        /\ WF_vars(\E t \in tasks : \E status \in Statuses : t.n = n /\ FetchAnswers(t, status))
        /\ WF_vars(\E t \in tasks : \E token \in BOOLEAN : t.n = n /\ TokenRefreshed(t, token))

SpecAppendFair == SpecAppend /\ FairAppend

\* C24: every call of appendExpenseRecordToSheet eventually returns or
\* throws, also when the server answers 401.
C24_AppendCompletes == \A n \in 1..MaxCalls : Awaiting(n) ~> ~Awaiting(n)

====
